---- MODULE Spec2Model ----
(***************************************************************************)
(* Persistence and backup subsystem of ODS v9.1: the IndexedDB data-access *)
(* layer (js/database.js), the export/import protocol (js/backup.js) and   *)
(* the theme facade (js/theme.js).                                         *)
(*                                                                         *)
(* Conventions.  A JavaScript object is a TLA+ record; a property that is  *)
(* undefined is a field absent from the record's DOMAIN.  Times are        *)
(* integers (Date.now()); 0 is the only falsy time.  Version strings are   *)
(* sequences of characters, because the code parses them.  Scale values    *)
(* are in hundredths (1.0 is 100), so that the arithmetic stays integral.  *)
(***************************************************************************)
EXTENDS Integers, Sequences, FiniteSets, TLC

\* ---------------------------------------------------------------- bounds
MaxTime == 2        \* Date.now() ranges over 1..MaxTime
MaxKey == 2         \* the key generators hand out keys up to MaxKey
MaxRecords == 1     \* records the direct API calls keep in the database
MaxScaleSteps == 1  \* scaleUp/scaleDown move at most this many steps away from 1.0
MaxCalls == 2       \* exportData and importData calls made in one behaviour
MaxCallers == 2     \* concurrent callers of the data-access API

\* ----------------------------------------------------- database.js: schema
DB_NAME == "ODS_v9"
DB_VERSION == 1

STORES ==
    [ themes     |-> [name |-> "themes",     keyPath |-> "id",        autoIncrement |-> FALSE],
      operations |-> [name |-> "operations", keyPath |-> "id",        autoIncrement |-> TRUE],
      workspaces |-> [name |-> "workspaces", keyPath |-> "id",        autoIncrement |-> TRUE],
      backups    |-> [name |-> "backups",    keyPath |-> "timestamp", autoIncrement |-> FALSE] ]

StoreNames == DOMAIN STORES
AutoStores == {s \in StoreNames : STORES[s].autoIncrement}

NULL == "null"
\* the value of an absent property or an absent record
UNDEFINED == [undefined |-> TRUE]

\* ------------------------------------------------------- theme.js: defaults
DefaultColors == [background |-> "#000000", text |-> "#00FF00", ui |-> "#00FF00"]
AmberColors == [background |-> "#000000", text |-> "#FFB000", ui |-> "#FFB000"]
DefaultTypography == [fontFamily |-> "Share Tech Mono", baseFontSize |-> 16]
DefaultScale == [current |-> 100, min |-> 25, max |-> 200, step |-> 5]
DefaultTheme ==
    [colors |-> DefaultColors, typography |-> DefaultTypography, scale |-> DefaultScale]

\* "9.1" and other version strings, as the characters the code splits
V91 == <<"9", ".", "1">>
V90 == <<"9", ".", "0">>
V85 == <<"8", ".", "5">>

VARIABLES
    db,             \* database.js `db`: NULL or the open connection
    available,      \* whether the browser's IndexedDB answers requests
    stores,         \* contents of the object stores: store name -> (key -> record)
    keyGen,         \* key generators of the autoIncrement stores
    now,            \* the clock read by Date.now()
    last,           \* the latest direct call of the data-access API and its outcome
    localStorage,   \* window.localStorage: key -> stored text
    theme,          \* theme.js `theme`
    currentScale,   \* theme.js `currentScale`
    stack,          \* the running handler and its callers: frames [fn, pc, locals]
    ret,            \* what the handler that returned last returned
    lastSaved,      \* the theme value written by the saveTheme that completed last,
                    \* unless a deleteTheme has removed it since
    downloads,      \* the file downloadJSON handed to the browser last
    calls,          \* how many exportData and importData calls have been made
    tasks,          \* concurrent callers of the data-access API: where each one is
    pendingOpens,   \* indexedDB.open requests issued and not yet answered
    idb             \* the browser's database ODS_v9: its version (0 while it does not
                    \* exist) and the names of its object stores

vars == <<db, available, stores, keyGen, now, last,
          localStorage, theme, currentScale, stack, ret, lastSaved, downloads,
          calls, tasks, pendingOpens, idb>>
themeVars == <<localStorage, theme, currentScale, stack, ret, lastSaved>>

\* ------------------------------------------------------------ JS helpers
Has(o, f) == f \in DOMAIN o

\* { ...a, ...b }
Spread(a, b) == [f \in DOMAIN a \cup DOMAIN b |-> IF f \in DOMAIN b THEN b[f] ELSE a[f]]

\* o[f] = v
SetField(o, f, v) == [g \in DOMAIN o \cup {f} |-> IF g = f THEN v ELSE o[g]]

\* o without the properties in fs
Omit(o, fs) == [g \in DOMAIN o \ fs |-> o[g]]

\* const { id, ...rest } = o
Without(o, f) == [g \in DOMAIN o \ {f} |-> o[g]]

EmptyMap == <<>>
MapPut(m, k, r) == [x \in DOMAIN m \cup {k} |-> IF x = k THEN r ELSE m[x]]
MapDel(m, k) == [x \in DOMAIN m \ {k} |-> m[x]]

\* JSON.stringify and JSON.parse.  A text is either the serialisation of a value
\* built from numbers, strings, arrays and plain objects, which parse gives
\* back, or it is no JSON at all and parse throws.
JSONstringify(v) == [kind |-> "json", value |-> v]
NotJSON == [kind |-> "garbage"]
JSONparses(text) == text.kind = "json"
JSONparse(text) == text.value

\* ------------------------------------------------- IndexedDB object stores
\* Key order of a store: numbers by value, theme ids as strings.
ThemeIdRank == [alt |-> 1, default |-> 2]
Rank(s, k) == IF s = "themes" THEN ThemeIdRank[k] ELSE k

RECURSIVE KeysInOrder(_, _)
KeysInOrder(s, K) ==
    IF K = {} THEN <<>>
    ELSE LET k == CHOOSE x \in K : \A y \in K : Rank(s, x) <= Rank(s, y)
         IN  <<k>> \o KeysInOrder(s, K \ {k})

\* The outcome of one request: ok/error, the value handed to onsuccess, and
\* the store contents and key generators after the transaction.
Outcome(ok, error, value, st, kg) ==
    [ok |-> ok, error |-> error, value |-> value, stores |-> st, keyGen |-> kg]

\* add() behaving as put(): an existing key is overwritten
StoreAdd_Overwrites(st, kg, s, data) ==
    LET kp == STORES[s].keyPath
        auto == STORES[s].autoIncrement
    IN  IF Has(data, kp)
        THEN LET k == data[kp]
             IN  Outcome(TRUE, "", k,
                         [st EXCEPT ![s] = MapPut(@, k, data)],
                         IF auto /\ k >= kg[s] THEN [kg EXCEPT ![s] = k + 1] ELSE kg)
        ELSE IF auto
             THEN LET k == kg[s]
                  IN  Outcome(TRUE, "", k,
                              [st EXCEPT ![s] = MapPut(@, k, Spread(data, [id |-> k]))],
                              [kg EXCEPT ![s] = k + 1])
             ELSE Outcome(FALSE, "DataError", UNDEFINED, st, kg)

\* IDBObjectStore.add(data)
StoreAdd(st, kg, s, data) ==
    LET kp == STORES[s].keyPath
        auto == STORES[s].autoIncrement
    IN  IF Has(data, kp)
        THEN LET k == data[kp]
             IN  IF k \in DOMAIN st[s]
                 THEN Outcome(FALSE, "ConstraintError", UNDEFINED, st, kg)
                 ELSE Outcome(TRUE, "", k,
                              [st EXCEPT ![s] = MapPut(@, k, data)],
                              IF auto /\ k >= kg[s] THEN [kg EXCEPT ![s] = k + 1] ELSE kg)
        ELSE IF auto
             THEN LET k == kg[s]
                  IN  Outcome(TRUE, "", k,
                              [st EXCEPT ![s] = MapPut(@, k, Spread(data, [id |-> k]))],
                              [kg EXCEPT ![s] = k + 1])
             ELSE Outcome(FALSE, "DataError", UNDEFINED, st, kg)

\* IDBObjectStore.put(data)
StorePut(st, kg, s, data) ==
    LET kp == STORES[s].keyPath
        auto == STORES[s].autoIncrement
    IN  IF Has(data, kp)
        THEN LET k == data[kp]
             IN  Outcome(TRUE, "", k,
                         [st EXCEPT ![s] = MapPut(@, k, data)],
                         IF auto /\ k >= kg[s] THEN [kg EXCEPT ![s] = k + 1] ELSE kg)
        ELSE IF auto
             THEN LET k == kg[s]
                  IN  Outcome(TRUE, "", k,
                              [st EXCEPT ![s] = MapPut(@, k, Spread(data, [id |-> k]))],
                              [kg EXCEPT ![s] = k + 1])
             ELSE Outcome(FALSE, "DataError", UNDEFINED, st, kg)

\* IDBObjectStore.get(id)
StoreGet(st, kg, s, id) ==
    Outcome(TRUE, "", IF id \in DOMAIN st[s] THEN st[s][id] ELSE UNDEFINED, st, kg)

\* IDBObjectStore.getAll()
StoreGetAll(st, kg, s) ==
    LET ks == KeysInOrder(s, DOMAIN st[s])
    IN  Outcome(TRUE, "", [i \in 1..Len(ks) |-> st[s][ks[i]]], st, kg)

\* IDBObjectStore.delete(id)
StoreDelete(st, kg, s, id) ==
    Outcome(TRUE, "", TRUE, [st EXCEPT ![s] = MapDel(@, id)], kg)

\* clear() that also resets the key generator of the store
StoreClear_ResetsGenerator(st, kg, s) ==
    Outcome(TRUE, "", TRUE, [st EXCEPT ![s] = EmptyMap],
            IF s \in AutoStores THEN [kg EXCEPT ![s] = 1] ELSE kg)

\* IDBObjectStore.clear(): the key generator is not reset
StoreClear(st, kg, s) ==
    Outcome(TRUE, "", TRUE, [st EXCEPT ![s] = EmptyMap], kg)

\* ------------------------------------------------ database.js: connection
\* onupgradeneeded creating every declared store but the last one
onupgradeneeded_SkipsBackups(database) ==
    [version |-> DB_VERSION,
     objectStoreNames |-> database.objectStoreNames
                             \cup {s \in StoreNames \ {"backups"} : s \notin database.objectStoreNames}]

\* request.onupgradeneeded: create the declared stores the database lacks
onupgradeneeded(database) ==
    [version |-> DB_VERSION,
     objectStoreNames |-> database.objectStoreNames
                             \cup {s \in StoreNames : s \notin database.objectStoreNames}]

\* indexedDB.open(DB_NAME, DB_VERSION): a database of a lower version, or none,
\* is upgraded; a database of that version is opened as it is
IDBOpen(database) ==
    IF database.version < DB_VERSION THEN onupgradeneeded(database) ELSE database

\* initDB: the open request succeeds when IndexedDB answers, and fails otherwise.
initDB(avail) ==
    IF avail THEN [ok |-> TRUE, db |-> "open", error |-> "", idb |-> IDBOpen(idb)]
    ELSE [ok |-> FALSE, db |-> NULL, error |-> "OpenError", idb |-> idb]

\* getDB: open only when there is no handle yet
getDB(d, avail) ==
    IF d = NULL THEN initDB(avail) ELSE [ok |-> TRUE, db |-> d, error |-> "", idb |-> idb]

\* A data-access call as a whole: getDB, then the transaction on the stores,
\* whose outcome on an answering engine is `tx`.  The result carries the
\* connection handle after the call.
Call(d, avail, st, kg, tx) ==
    LET conn == getDB(d, avail)
        handle == [db |-> conn.db, idb |-> conn.idb]
    IN  IF ~conn.ok
        THEN Outcome(FALSE, conn.error, UNDEFINED, st, kg) @@ handle
        ELSE IF ~avail
             THEN Outcome(FALSE, "TransactionError", UNDEFINED, st, kg) @@ handle
             ELSE IF conn.idb.objectStoreNames # StoreNames
             THEN Outcome(FALSE, "NotFoundError", UNDEFINED, st, kg) @@ handle
             ELSE tx @@ handle

\* ----------------------------------------------------- database.js: CRUD
\* addItem without the timestamp stamping
addItemTx_NoStamp(st, kg, s, data, t) == StoreAdd(st, kg, s, data)

\* addItem: stamps `timestamp` when it is missing or falsy, then add()
addItemTx(st, kg, s, data, t) ==
    StoreAdd(st, kg, s,
             IF ~Has(data, "timestamp") \/ data.timestamp = 0
             THEN Spread(data, [timestamp |-> t]) ELSE data)

getItemTx(st, kg, s, id) == StoreGet(st, kg, s, id)

getAllItemsTx(st, kg, s) == StoreGetAll(st, kg, s)

\* updatedData without the "ensure id is preserved" assignment
updatedData_KeyNotForced(s, id, existing, data, t) ==
    Spread(Spread(existing, data), [modified |-> t])

\* updatedData merging the stored record over the patch
updatedData_StoredWins(s, id, existing, data, t) ==
    LET merged == Spread(Spread(data, existing), [modified |-> t])
        kp == STORES[s].keyPath
    IN  IF ~Has(merged, kp) \/ merged[kp] # id THEN SetField(merged, kp, id) ELSE merged

\* The record updateItem writes: the merge, `modified`, and the key forced back
updatedData(s, id, existing, data, t) ==
    LET merged == Spread(Spread(existing, data), [modified |-> t])
        kp == STORES[s].keyPath
    IN  IF ~Has(merged, kp) \/ merged[kp] # id THEN SetField(merged, kp, id) ELSE merged

\* updateItem without the not-found rejection: an absent record merges as {}
updateItemTx_Upsert(st, kg, s, id, data, t) ==
    LET got == StoreGet(st, kg, s, id)
        upd == updatedData(s, id, IF got.value = UNDEFINED THEN <<>> ELSE got.value, data, t)
        put == StorePut(st, kg, s, upd)
    IN  IF put.ok THEN [put EXCEPT !.value = upd] ELSE put

\* updateItem putting the patch alone, under the key, over whatever is stored
updateItemTx_Overwrites(st, kg, s, id, data, t) ==
    LET got == StoreGet(st, kg, s, id)
    IN  IF got.value = UNDEFINED
        THEN Outcome(FALSE, "NotFound", UNDEFINED, st, kg)
        ELSE LET upd == updatedData(s, id, <<>>, data, t)
                 put == StorePut(st, kg, s, upd)
             IN  IF put.ok THEN [put EXCEPT !.value = upd] ELSE put

\* updateItem: get, reject when absent, else put the merged record; one transaction
updateItemTx(st, kg, s, id, data, t) ==
    LET got == StoreGet(st, kg, s, id)
    IN  IF got.value = UNDEFINED
        THEN Outcome(FALSE, "NotFound", UNDEFINED, st, kg)
        ELSE LET upd == updatedData(s, id, got.value, data, t)
                 put == StorePut(st, kg, s, upd)
             IN  IF put.ok THEN [put EXCEPT !.value = upd] ELSE put

\* deleteItem rejecting a key that is not there
deleteItemTx_RejectsAbsent(st, kg, s, id) ==
    IF id \in DOMAIN st[s] THEN StoreDelete(st, kg, s, id)
    ELSE Outcome(FALSE, "NotFound", UNDEFINED, st, kg)

deleteItemTx(st, kg, s, id) == StoreDelete(st, kg, s, id)

clearStoreTx(st, kg, s) == StoreClear(st, kg, s)

\* ------------------------------------------------------------ environment
NoCall == [op |-> "none"]

NoRet == [fn |-> "none"]
NoSave == [saved |-> FALSE]
NoFile == [name |-> <<>>, text |-> NotJSON]
NoTask == [pc |-> "idle"]
TaskIds == 1..MaxCallers
NoDatabase == [version |-> 0, objectStoreNames |-> {}]

Init ==
    /\ db = NULL
    /\ available = TRUE
    /\ stores = [s \in StoreNames |-> EmptyMap]
    /\ keyGen = [s \in AutoStores |-> 1]
    /\ now = 1
    /\ last = NoCall
    /\ localStorage = EmptyMap
    /\ theme = DefaultTheme
    /\ currentScale = DefaultScale.current
    /\ stack = <<>>
    /\ ret = NoRet
    /\ lastSaved = NoSave
    /\ downloads = NoFile
    /\ calls = 0
    /\ tasks = [c \in TaskIds |-> NoTask]
    /\ pendingOpens = 0
    /\ idb = NoDatabase

\* The clock advances between any two steps, or not at all.
Tick ==
    /\ now < MaxTime
    /\ now' = now + 1
    /\ UNCHANGED <<downloads, db, idb, available, stores, keyGen, last, themeVars, calls, tasks, pendingOpens>>

\* IndexedDB stops or resumes answering (an outage and its recovery).
EngineToggle ==
    /\ available' = ~available
    /\ UNCHANGED <<downloads, db, idb, stores, keyGen, now, last, themeVars, calls, tasks, pendingOpens>>

\* -------------------------------------------- direct calls of the CRUD API
\* Arguments the callers pass, per store.
AddInputsOf ==
    [themes |-> { [id |-> "default", colors |-> DefaultColors], [colors |-> AmberColors] },
     operations |-> { [type |-> "a", timestamp |-> 0], [id |-> 2, type |-> "a"] },
     workspaces |-> { [name |-> "w"] },
     backups |-> { [version |-> V91], [timestamp |-> 1, version |-> V90] }]

AddInputs(s) == AddInputsOf[s]

KeyInputs(s) ==
    CASE s = "themes" -> {"default", "alt"}
      [] s \in AutoStores -> {1, 2}
      [] s = "backups" -> {1, 2}

PatchInputsOf ==
    [themes |-> { [id |-> "alt", colors |-> AmberColors] },
     operations |-> { [id |-> 1, type |-> "c", modified |-> 0] },
     workspaces |-> { [id |-> 2, name |-> "u"] },
     backups |-> { [timestamp |-> 2, type |-> "import"] }]

PatchInputs(s) == PatchInputsOf[s]

RecordCount(st) ==
    Cardinality(DOMAIN st.themes) + Cardinality(DOMAIN st.operations)
        + Cardinality(DOMAIN st.workspaces) + Cardinality(DOMAIN st.backups)

\* The state a data-access call leaves, and the call's record in `last`: the
\* call, its outcome, and the stores, key generators and time it started from.
Returned(call, res) ==
    /\ stack = <<>>
    /\ ret' = NoRet
    /\ db' = res.db
    /\ idb' = res.idb
    /\ stores' = res.stores
    /\ keyGen' = res.keyGen
    /\ last' = call @@ [ok |-> res.ok, error |-> res.error, value |-> res.value,
                        before |-> [stores |-> stores, keyGen |-> keyGen, now |-> now]]
    /\ UNCHANGED <<downloads, available, now, localStorage, theme, currentScale, stack, lastSaved, calls, tasks, pendingOpens>>

addItem(s, data) ==
    LET res == Call(db, available, stores, keyGen, addItemTx(stores, keyGen, s, data, now))
    IN  /\ RecordCount(res.stores) <= MaxRecords
        /\ \A a \in AutoStores : res.keyGen[a] <= MaxKey + 1
        /\ Returned([op |-> "addItem", store |-> s, arg |-> data], res)

getItem(s, id) ==
    /\ id \in KeyInputs(s)
    /\ Returned([op |-> "getItem", store |-> s, key |-> id],
                Call(db, available, stores, keyGen, getItemTx(stores, keyGen, s, id)))

getAllItems(s) ==
    /\ s \in StoreNames
    /\ Returned([op |-> "getAllItems", store |-> s],
                Call(db, available, stores, keyGen, getAllItemsTx(stores, keyGen, s)))

updateItem(s, id, data) ==
    /\ id \in KeyInputs(s)
    /\ Returned([op |-> "updateItem", store |-> s, key |-> id, arg |-> data],
                Call(db, available, stores, keyGen, updateItemTx(stores, keyGen, s, id, data, now)))

deleteItem(s, id) ==
    /\ id \in KeyInputs(s)
    /\ Returned([op |-> "deleteItem", store |-> s, key |-> id],
                Call(db, available, stores, keyGen, deleteItemTx(stores, keyGen, s, id)))

clearStore(s) ==
    /\ s \in StoreNames
    /\ Returned([op |-> "clearStore", store |-> s],
                Call(db, available, stores, keyGen, clearStoreTx(stores, keyGen, s)))

NextCrud ==
    \/ \E s \in StoreNames : \E data \in AddInputs(s) : addItem(s, data)
    \/ \E s \in StoreNames : \E id \in KeyInputs(s) : getItem(s, id)
    \/ \E s \in StoreNames : getAllItems(s)
    \/ \E s \in StoreNames : \E id \in KeyInputs(s) : \E data \in PatchInputs(s) :
            updateItem(s, id, data)
    \/ \E s \in StoreNames : \E id \in KeyInputs(s) : deleteItem(s, id)
    \/ \E s \in StoreNames : clearStore(s)
    \/ Tick

SpecCrud == Init /\ [][NextCrud]_vars

\* ======================================================================
\* Handlers.  An async function runs as a frame on `stack`; each step of a
\* frame is the resolution of one awaited request together with the
\* synchronous code that follows it, up to the next await.  A handler that
\* awaits another pushes the callee's frame and continues when it returned.
\* ======================================================================
Running(fn, pc) ==
    /\ stack # <<>>
    /\ stack[Len(stack)].fn = fn
    /\ stack[Len(stack)].pc = pc

Top == stack[Len(stack)]
Callers == SubSeq(stack, 1, Len(stack) - 1)
Idle == stack = <<>>

\* the top frame moves to `frame`
Goto(frame) == [stack EXCEPT ![Len(stack)] = frame]

\* the effect of a request on the engine
Engine(res) ==
    /\ db' = res.db
    /\ idb' = res.idb
    /\ stores' = res.stores
    /\ keyGen' = res.keyGen

\* ------------------------------------------------------ theme.js: setScale
\* Math.round(x / step) * step
RoundToStep(x, step) == ((2 * x + step) \div (2 * step)) * step

Max(a, b) == IF a >= b THEN a ELSE b
Min(a, b) == IF a <= b THEN a ELSE b

\* setScale(value): clamp, round to the step, store in currentScale and theme.scale.current
setScale(th, value) ==
    LET clampedValue == Max(th.scale.min, Min(th.scale.max, value))
        steppedValue == RoundToStep(clampedValue, th.scale.step)
    IN  [theme |-> [th EXCEPT !.scale.current = steppedValue], currentScale |-> steppedValue]

\* ----------------------------------------------------- theme.js: saveTheme
\* the themeData saveTheme builds on entry
themeData(th, cs, t) ==
    [id |-> "default", colors |-> th.colors, typography |-> th.typography,
     scale |-> [th.scale EXCEPT !.current = cs], timestamp |-> t, version |-> V91]

\* the themeData saveTheme builds in its catch block
fallbackThemeData(th, cs, t) ==
    [id |-> "default", colors |-> th.colors, typography |-> th.typography,
     scale |-> [th.scale EXCEPT !.current = cs], timestamp |-> t]

\* the part of a stored theme that loadTheme applies
ThemeValue(data) == [f \in DOMAIN data \cap {"colors", "typography", "scale"} |-> data[f]]

SaveFrame(th, cs, t) == [fn |-> "saveTheme", pc |-> "check", themeData |-> themeData(th, cs, t)]

\* saveTheme's catch block: write localStorage['ods_theme'] and return true
saveThemeFallback ==
    LET data == fallbackThemeData(theme, currentScale, now)
    IN  /\ localStorage' = MapPut(localStorage, "ods_theme", JSONstringify(data))
        /\ lastSaved' = [saved |-> TRUE, value |-> ThemeValue(data)]
        /\ stack' = Callers
        /\ ret' = [fn |-> "saveTheme", value |-> TRUE, tier |-> "ods_theme"]

\* await getItem('themes', 'default')
saveThemeCheck ==
    /\ Running("saveTheme", "check")
    /\ LET res == Call(db, available, stores, keyGen, getItemTx(stores, keyGen, "themes", "default"))
       IN  /\ Engine(res)
           /\ IF ~res.ok
              THEN saveThemeFallback
              ELSE /\ stack' = Goto([Top EXCEPT !.pc = IF res.value # UNDEFINED THEN "update" ELSE "add"])
                   /\ UNCHANGED <<localStorage, lastSaved, ret, calls, tasks, pendingOpens>>
    /\ UNCHANGED <<downloads, available, now, last, theme, currentScale, calls, tasks, pendingOpens>>

\* await updateItem(...) or await addItem(...), then the localStorage mirror
saveThemeWrite ==
    /\ stack # <<>>
    /\ Top.fn = "saveTheme"
    /\ Top.pc \in {"update", "add"}
    /\ LET data == Top.themeData
           res == IF Top.pc = "update"
                  THEN Call(db, available, stores, keyGen,
                            updateItemTx(stores, keyGen, "themes", "default", data, now))
                  ELSE Call(db, available, stores, keyGen,
                            addItemTx(stores, keyGen, "themes", data, now))
       IN  /\ Engine(res)
           /\ IF ~res.ok
              THEN saveThemeFallback
              ELSE /\ localStorage' = MapPut(localStorage, "ods_theme_backup", JSONstringify(data))
                   /\ lastSaved' = [saved |-> TRUE, value |-> ThemeValue(data)]
                   /\ stack' = Callers
                   /\ ret' = [fn |-> "saveTheme", value |-> TRUE, tier |-> "themes"]
    /\ UNCHANGED <<downloads, available, now, last, theme, currentScale, calls, tasks, pendingOpens>>

\* ----------------------------------------------------- theme.js: loadTheme
\* "if (data.colors) theme.colors = data.colors; ..." on theme and currentScale
ApplySaved(th, cs, data) ==
    LET th1 == IF Has(data, "colors") THEN [th EXCEPT !.colors = data.colors] ELSE th
        th2 == IF Has(data, "typography") THEN [th1 EXCEPT !.typography = data.typography] ELSE th1
    IN  IF Has(data, "scale")
        THEN [theme |-> [th2 EXCEPT !.scale = data.scale],
              currentScale |-> IF data.scale.current = 0 THEN 100 ELSE data.scale.current]
        ELSE [theme |-> th2, currentScale |-> cs]

LoadFrame == [fn |-> "loadTheme", pc |-> "get"]

\* await getItem('themes', 'default') and the three ways on from it
loadThemeGet ==
    /\ Running("loadTheme", "get")
    /\ LET res == Call(db, available, stores, keyGen, getItemTx(stores, keyGen, "themes", "default"))
       IN  /\ Engine(res)
           /\ IF ~res.ok
              THEN \* catch: localStorage['ods_theme'] || localStorage['ods_theme_backup']
                   LET key == IF Has(localStorage, "ods_theme") THEN "ods_theme"
                              ELSE "ods_theme_backup"
                       app == IF Has(localStorage, key)
                              THEN ApplySaved(theme, currentScale, JSONparse(localStorage[key]))
                              ELSE [theme |-> theme, currentScale |-> currentScale]
                   IN  /\ theme' = app.theme
                       /\ currentScale' = app.currentScale
                       /\ stack' = Callers
                       /\ ret' = [fn |-> "loadTheme", value |-> app.theme,
                                  currentScale |-> app.currentScale,
                                  source |-> IF Has(localStorage, key) THEN key ELSE "memory"]
                       /\ UNCHANGED localStorage
              ELSE IF res.value # UNDEFINED
              THEN LET app == ApplySaved(theme, currentScale, res.value)
                   IN  /\ theme' = app.theme
                       /\ currentScale' = app.currentScale
                       /\ stack' = Callers
                       /\ ret' = [fn |-> "loadTheme", value |-> app.theme,
                                  currentScale |-> app.currentScale, source |-> "themes"]
                       /\ UNCHANGED localStorage
              ELSE \* no theme in the database: migrate localStorage['ods_theme'], or save the defaults
                   LET found == Has(localStorage, "ods_theme")
                       app == IF found
                              THEN ApplySaved(theme, currentScale, JSONparse(localStorage["ods_theme"]))
                              ELSE [theme |-> theme, currentScale |-> currentScale]
                   IN  /\ theme' = app.theme
                       /\ currentScale' = app.currentScale
                       /\ stack' = Goto([Top EXCEPT !.pc = IF found THEN "migrate" ELSE "defaults"]
                                             @@ [cached |-> {"ods_theme", "ods_theme_backup"}
                                                                \cap DOMAIN localStorage])
                                       \o <<SaveFrame(app.theme, app.currentScale, now)>>
                       /\ UNCHANGED <<localStorage, ret, calls, tasks, pendingOpens>>
    /\ UNCHANGED <<downloads, available, now, last, lastSaved, calls, tasks, pendingOpens>>

\* after `await saveTheme()`: remove localStorage['ods_theme'] when migrating; return
\* theme.  The result remembers which localStorage entries the miss found and
\* where saveTheme wrote.
loadThemeSaved ==
    /\ stack # <<>>
    /\ Top.fn = "loadTheme"
    /\ Top.pc \in {"migrate", "defaults"}
    /\ localStorage' = IF Top.pc = "migrate" THEN MapDel(localStorage, "ods_theme") ELSE localStorage
    /\ stack' = Callers
    /\ ret' = [fn |-> "loadTheme", value |-> theme, currentScale |-> currentScale,
               source |-> IF Top.pc = "migrate" THEN "migrated" ELSE "defaults",
               cached |-> Top.cached, saved |-> ret.tier]
    /\ UNCHANGED <<downloads, db, idb, available, stores, keyGen, now, last, theme, currentScale, lastSaved, calls, tasks, pendingOpens>>

\* a caller invokes loadTheme()
loadTheme ==
    /\ Idle
    /\ stack' = <<LoadFrame>>
    /\ ret' = NoRet
    /\ last' = NoCall
    /\ UNCHANGED <<downloads, db, idb, available, stores, keyGen, now, localStorage, theme, currentScale, lastSaved, calls, tasks, pendingOpens>>

\* ------------------------------------------- theme.js: scaleUp, scaleDown
\* setScale(currentScale + step), then saveTheme() without awaiting it
scaleUp ==
    /\ Idle
    /\ currentScale + theme.scale.step <= DefaultScale.current + MaxScaleSteps * DefaultScale.step
    /\ LET set == setScale(theme, currentScale + theme.scale.step)
       IN  /\ theme' = set.theme
           /\ currentScale' = set.currentScale
           /\ stack' = <<SaveFrame(set.theme, set.currentScale, now)>>
    /\ ret' = NoRet
    /\ last' = NoCall
    /\ UNCHANGED <<downloads, db, idb, available, stores, keyGen, now, localStorage, lastSaved, calls, tasks, pendingOpens>>

scaleDown ==
    /\ Idle
    /\ currentScale - theme.scale.step >= DefaultScale.current - MaxScaleSteps * DefaultScale.step
    /\ LET set == setScale(theme, currentScale - theme.scale.step)
       IN  /\ theme' = set.theme
           /\ currentScale' = set.currentScale
           /\ stack' = <<SaveFrame(set.theme, set.currentScale, now)>>
    /\ ret' = NoRet
    /\ last' = NoCall
    /\ UNCHANGED <<downloads, db, idb, available, stores, keyGen, now, localStorage, lastSaved, calls, tasks, pendingOpens>>

\* ------------------------------------------------ app.js: initApp, initTheme
\* A page load: the scripts start from their initial values and initApp awaits
\* initTheme, which awaits loadTheme.
initApp ==
    /\ Idle
    /\ db' = NULL
    /\ UNCHANGED idb
    /\ theme' = DefaultTheme
    /\ currentScale' = DefaultScale.current
    /\ stack' = <<[fn |-> "initTheme", pc |-> "loaded"], LoadFrame>>
    /\ ret' = NoRet
    /\ last' = NoCall
    /\ UNCHANGED <<downloads, available, stores, keyGen, now, localStorage, lastSaved, calls, tasks, pendingOpens>>

\* initTheme after `await loadTheme()`: applyTheme(theme); setScale(currentScale)
initThemeLoaded ==
    /\ Running("initTheme", "loaded")
    /\ LET set == setScale(theme, currentScale)
       IN  /\ theme' = set.theme
           /\ currentScale' = set.currentScale
    /\ stack' = Callers
    /\ ret' = [fn |-> "initTheme"]
    /\ UNCHANGED <<downloads, db, idb, available, stores, keyGen, now, last, localStorage, lastSaved, calls, tasks, pendingOpens>>

\* --------------------------------------------------- theme.js: deleteTheme
\* await deleteItem('themes', 'default'); then both localStorage entries are
\* removed; a rejected deleteItem goes to the catch, which returns false
deleteTheme ==
    /\ Idle
    /\ LET res == Call(db, available, stores, keyGen,
                       deleteItemTx(stores, keyGen, "themes", "default"))
       IN  /\ Engine(res)
           /\ localStorage' = IF res.ok
                              THEN MapDel(MapDel(localStorage, "ods_theme"), "ods_theme_backup")
                              ELSE localStorage
           /\ lastSaved' = IF res.ok THEN NoSave ELSE lastSaved
           /\ ret' = [fn |-> "deleteTheme", value |-> res.ok]
    /\ last' = NoCall
    /\ UNCHANGED <<available, now, theme, currentScale, stack, downloads, calls, tasks, pendingOpens>>

NextTheme ==
    \/ scaleUp
    \/ scaleDown
    \/ loadTheme
    \/ deleteTheme
    \/ initApp
    \/ saveThemeCheck
    \/ saveThemeWrite
    \/ loadThemeGet
    \/ loadThemeSaved
    \/ initThemeLoaded
    \/ Tick
    \/ EngineToggle

SpecTheme == Init /\ [][NextTheme]_vars

\* ======================================================================
\* backup.js
\* ======================================================================
BACKUP_VERSION == V91
BACKUP_MAGIC == "ODS_BACKUP_v9"

\* typeof v: a primitive value of a document is [primitive |-> its type]
TypeOf(v) == IF Has(v, "primitive") THEN v.primitive ELSE "object"

\* !v, for a value that stands where an object is expected
Falsy(v) == Has(v, "primitive") /\ v.falsy

\* version.split('.')[0]
RECURSIVE FirstPart(_)
FirstPart(chars) ==
    IF chars = <<>> \/ Head(chars) = "." THEN <<>>
    ELSE <<Head(chars)>> \o FirstPart(Tail(chars))

\* isCompatibleVersion comparing the whole version text
isCompatibleVersion_WholeVersion(version) ==
    IF version = <<>> THEN FALSE
    ELSE BACKUP_VERSION = version

\* isCompatibleVersion: same text before the first '.'
isCompatibleVersion(version) ==
    IF version = <<>> THEN FALSE
    ELSE FirstPart(BACKUP_VERSION) = FirstPart(version)

\* validateBackup without the comparison of the magic
validateBackup_NoMagicCheck(backup) ==
    IF ~Has(backup, "version") \/ backup.version = <<>>
    THEN [valid |-> FALSE, error |-> "Missing version information"]
    ELSE IF ~Has(backup, "timestamp") \/ backup.timestamp = 0
    THEN [valid |-> FALSE, error |-> "Missing timestamp"]
    ELSE IF ~Has(backup, "data") \/ Falsy(backup.data)
    THEN [valid |-> FALSE, error |-> "Missing data section"]
    ELSE IF TypeOf(backup.data) # "object"
    THEN [valid |-> FALSE, error |-> "Invalid data structure"]
    ELSE [valid |-> TRUE, error |-> ""]

\* validateBackup: the first failed check names the error
validateBackup(backup) ==
    IF ~Has(backup, "magic") \/ backup.magic = "" \/ backup.magic # BACKUP_MAGIC
    THEN [valid |-> FALSE, error |-> "Invalid backup file format"]
    ELSE IF ~Has(backup, "version") \/ backup.version = <<>>
    THEN [valid |-> FALSE, error |-> "Missing version information"]
    ELSE IF ~Has(backup, "timestamp") \/ backup.timestamp = 0
    THEN [valid |-> FALSE, error |-> "Missing timestamp"]
    ELSE IF ~Has(backup, "data") \/ Falsy(backup.data)
    THEN [valid |-> FALSE, error |-> "Missing data section"]
    ELSE IF TypeOf(backup.data) # "object"
    THEN [valid |-> FALSE, error |-> "Invalid data structure"]
    ELSE [valid |-> TRUE, error |-> ""]

\* `ods-backup-${date.toISOString().slice(0, 19).replace(/:/g, '-')}.json`: the
\* name keeps the whole seconds of the time
Filename(t) == <<"ods-backup-", t \div 1000, ".json">>

\* jsonString.length, counted in records: the text grows with every record
JSONlength(backup) ==
    1 + Len(backup.data.themes) + Len(backup.data.operations) + Len(backup.data.workspaces)

\* the backup object with the themes in the place of the operations
BackupOf_ThemesTwice(themes, operations, workspaces, t) ==
    [ magic |-> BACKUP_MAGIC,
      version |-> BACKUP_VERSION,
      timestamp |-> t,
      date |-> [iso |-> t],
      data |-> [themes |-> themes, operations |-> themes, workspaces |-> workspaces],
      metadata |-> [themesCount |-> Len(themes), operationsCount |-> Len(operations),
                    workspacesCount |-> Len(workspaces), exportedBy |-> "ODS v9.1",
                    userAgent |-> "navigator.userAgent"] ]

\* the backup object exportData builds
BackupOf(themes, operations, workspaces, t) ==
    [ magic |-> BACKUP_MAGIC,
      version |-> BACKUP_VERSION,
      timestamp |-> t,
      date |-> [iso |-> t],
      data |-> [themes |-> themes, operations |-> operations, workspaces |-> workspaces],
      metadata |-> [themesCount |-> Len(themes), operationsCount |-> Len(operations),
                    workspacesCount |-> Len(workspaces), exportedBy |-> "ODS v9.1",
                    userAgent |-> "navigator.userAgent"] ]

ExportFrame == [fn |-> "exportData", pc |-> "gatherThemes"]

\* the frame of a call of exportData: it remembers the stores the call started from
ExportCall == ExportFrame @@ [before |-> stores]

ExportFailed(error) == [fn |-> "exportData", success |-> FALSE, error |-> error]

\* ---------------------------------------------------- backup.js: exportData
\* exportGather going on to the summary record once the operations are read, with
\* no read of the workspaces and no download
exportGather_RecordsEarly ==
    /\ stack # <<>>
    /\ Top.fn = "exportData"
    /\ Top.pc \in {"gatherThemes", "gatherOperations"}
    /\ LET s == IF Top.pc = "gatherThemes" THEN "themes" ELSE "operations"
           res == Call(db, available, stores, keyGen, getAllItemsTx(stores, keyGen, s))
       IN  /\ Engine(res)
           /\ IF ~res.ok
              THEN /\ stack' = Callers
                   /\ ret' = ExportFailed(res.error) @@ [before |-> Top.before]
              ELSE /\ stack' = Goto(IF s = "themes"
                                    THEN [Top EXCEPT !.pc = "gatherOperations"] @@ [themes |-> res.value]
                                    ELSE [fn |-> "exportData", pc |-> "record",
                                          before |-> Top.before,
                                          record |-> [timestamp |-> now,
                                                      version |-> BACKUP_VERSION,
                                                      filename |-> Filename(now),
                                                      size |-> 1,
                                                      counts |-> [themes |-> Len(Top.themes),
                                                                  operations |-> Len(res.value),
                                                                  workspaces |-> 0]]])
                   /\ UNCHANGED ret
    /\ UNCHANGED <<available, now, last, localStorage, theme, currentScale, lastSaved, downloads, calls, tasks, pendingOpens>>

\* await getAllItems('themes'); await getAllItems('operations')
exportGather ==
    /\ stack # <<>>
    /\ Top.fn = "exportData"
    /\ Top.pc \in {"gatherThemes", "gatherOperations"}
    /\ LET s == IF Top.pc = "gatherThemes" THEN "themes" ELSE "operations"
           res == Call(db, available, stores, keyGen, getAllItemsTx(stores, keyGen, s))
       IN  /\ Engine(res)
           /\ IF ~res.ok
              THEN /\ stack' = Callers
                   /\ ret' = ExportFailed(res.error) @@ [before |-> Top.before]
              ELSE /\ stack' = Goto(IF s = "themes"
                                    THEN [Top EXCEPT !.pc = "gatherOperations"] @@ [themes |-> res.value]
                                    ELSE [Top EXCEPT !.pc = "gatherWorkspaces"] @@ [operations |-> res.value])
                   /\ UNCHANGED ret
    /\ UNCHANGED <<available, now, last, localStorage, theme, currentScale, lastSaved, downloads, calls, tasks, pendingOpens>>

\* await getAllItems('workspaces'); then Date.now(), the backup object,
\* JSON.stringify and downloadJSON, which may throw
exportWrite ==
    /\ Running("exportData", "gatherWorkspaces")
    /\ \E downloadThrows \in BOOLEAN :
        LET res == Call(db, available, stores, keyGen, getAllItemsTx(stores, keyGen, "workspaces"))
            backup == BackupOf(Top.themes, Top.operations, res.value, now)
            jsonString == JSONstringify(backup)
            filename == Filename(now)
        IN  /\ Engine(res)
            /\ IF ~res.ok
               THEN /\ stack' = Callers
                    /\ ret' = ExportFailed(res.error) @@ [before |-> Top.before]
                    /\ UNCHANGED downloads
               ELSE IF downloadThrows
               THEN /\ stack' = Callers
                    /\ ret' = ExportFailed("DownloadError") @@ [before |-> Top.before]
                    /\ UNCHANGED downloads
               ELSE /\ downloads' = [name |-> filename, text |-> jsonString]
                    /\ stack' = Goto([fn |-> "exportData", pc |-> "record",
                                      before |-> Top.before,
                                      record |-> [timestamp |-> now,
                                                  version |-> BACKUP_VERSION,
                                                  filename |-> filename,
                                                  size |-> JSONlength(backup),
                                                  counts |-> [themes |-> Len(Top.themes),
                                                              operations |-> Len(Top.operations),
                                                              workspaces |-> Len(res.value)]]])
                    /\ UNCHANGED ret
    /\ UNCHANGED <<available, now, last, localStorage, theme, currentScale, lastSaved, calls, tasks, pendingOpens>>

\* exportRecord returning success whatever addItem answered
exportRecord_IgnoresFailure ==
    /\ Running("exportData", "record")
    /\ LET res == Call(db, available, stores, keyGen,
                       addItemTx(stores, keyGen, "backups", Top.record, now))
       IN  /\ Engine(res)
           /\ stack' = Callers
           /\ ret' = [fn |-> "exportData", success |-> TRUE, filename |-> Top.record.filename,
                      record |-> Top.record, before |-> Top.before]
    /\ UNCHANGED <<available, now, last, localStorage, theme, currentScale, lastSaved, downloads, calls, tasks, pendingOpens>>

\* await addItem('backups', ...); return success
exportRecord ==
    /\ Running("exportData", "record")
    /\ LET res == Call(db, available, stores, keyGen,
                       addItemTx(stores, keyGen, "backups", Top.record, now))
       IN  /\ Engine(res)
           /\ stack' = Callers
           /\ ret' = IF res.ok
                     THEN [fn |-> "exportData", success |-> TRUE, filename |-> Top.record.filename,
                           record |-> Top.record, before |-> Top.before]
                     ELSE ExportFailed(res.error) @@ [before |-> Top.before]
    /\ UNCHANGED <<available, now, last, localStorage, theme, currentScale, lastSaved, downloads, calls, tasks, pendingOpens>>

\* a caller invokes exportData()
exportData ==
    /\ Idle
    /\ calls < MaxCalls
    /\ calls' = calls + 1
    /\ stack' = <<ExportCall>>
    /\ ret' = NoRet
    /\ last' = NoCall
    /\ UNCHANGED <<db, idb, available, stores, keyGen, now, localStorage, theme, currentScale,
                   lastSaved, downloads, tasks, pendingOpens>>

\* --------------------------------------------- backup.js: clearBackupHistory
clearBackupHistory ==
    /\ Idle
    /\ LET res == Call(db, available, stores, keyGen, clearStoreTx(stores, keyGen, "backups"))
       IN  /\ Engine(res)
           /\ ret' = [fn |-> "clearBackupHistory", value |-> res.ok]
    /\ last' = NoCall
    /\ UNCHANGED <<available, now, localStorage, theme, currentScale, stack, lastSaved, downloads, calls, tasks, pendingOpens>>

\* ---------------------------------------------------- backup.js: importData
\* backup.data[s] when it is there and not empty, else nothing to insert
Section(backup, s) == IF Has(backup.data, s) THEN backup.data[s] ELSE <<>>

\* importData letting the error out instead of returning a result
ImportFailed_Raises(frame, error) ==
    [fn |-> "importData", raised |-> error, call |-> frame]

\* the catch of importData: return { success: false, error: error.message }
ImportFailed(frame, error) ==
    [fn |-> "importData", success |-> FALSE, error |-> error, call |-> frame]

\* the record addItem is given, with every record keeping its id
ImportedRecord_KeepsId(backup, s, i) == Section(backup, s)[i]

\* the record addItem is given for the i-th element of a section: operations and
\* workspaces lose their id
ImportedRecord(backup, s, i) ==
    IF s = "themes" THEN Section(backup, s)[i] ELSE Without(Section(backup, s)[i], "id")

\* where the insertion loops go after position i of section s (i = 0: before it)
NextInsert(backup, s, i) ==
    LET order == <<"themes", "operations", "workspaces">>
        from == CHOOSE n \in 1..3 : order[n] = s
        later == {n \in (from + 1)..3 : Len(Section(backup, order[n])) > 0}
    IN  IF i < Len(Section(backup, s)) THEN [pc |-> "insert", store |-> s, index |-> i + 1]
        ELSE IF later = {} THEN [pc |-> "record", store |-> "backups", index |-> 0]
        ELSE [pc |-> "insert", store |-> order[CHOOSE n \in later : \A m \in later : n <= m],
              index |-> 1]

\* a caller invokes importData(file); the frame remembers the stores and the key
\* generators it started from
importData(file) ==
    /\ Idle
    /\ calls < MaxCalls
    /\ stack' = <<[fn |-> "importData", pc |-> "read", file |-> file,
                   before |-> stores, keyGen |-> keyGen, prompts |-> <<>>]>>
    /\ ret' = NoRet
    /\ last' = NoCall
    /\ calls' = calls + 1
    /\ UNCHANGED <<db, idb, available, stores, keyGen, now, localStorage, theme, currentScale,
                   lastSaved, downloads, tasks, pendingOpens>>

\* importRead going on whatever the caller answers to the preview
importRead_IgnoresPreview ==
    /\ Running("importData", "read")
    /\ \E proceed \in BOOLEAN, confirmImport \in BOOLEAN :
        LET text == Top.file.text
            backup == JSONparse(text)
            validation == validateBackup(backup)
            versionPrompt == IF isCompatibleVersion(backup.version) THEN <<>>
                             ELSE <<[ask |-> "version", answer |-> proceed]>>
            previewPrompt == <<[ask |-> "preview", answer |-> confirmImport]>>
            thrown ==
                IF ~JSONparses(text) THEN [error |-> "SyntaxError", prompts |-> <<>>]
                ELSE IF ~validation.valid THEN [error |-> validation.error, prompts |-> <<>>]
                ELSE IF versionPrompt # <<>> /\ ~proceed
                THEN [error |-> "Import cancelled by user", prompts |-> versionPrompt]
                ELSE IF ~Has(backup, "metadata")
                THEN [error |-> "TypeError", prompts |-> versionPrompt]
                ELSE [error |-> "", prompts |-> versionPrompt \o previewPrompt]
        IN  IF thrown.error # ""
            THEN /\ stack' = Callers
                 /\ ret' = ImportFailed([Top EXCEPT !.prompts = thrown.prompts], thrown.error)
            ELSE /\ stack' = Goto([Top EXCEPT !.pc = "snapshot", !.prompts = thrown.prompts]
                                  @@ [backup |-> backup]) \o <<ExportCall>>
                 /\ UNCHANGED ret
    /\ UNCHANGED <<db, idb, available, stores, keyGen, now, last, localStorage, theme, currentScale,
                   lastSaved, downloads, calls, tasks, pendingOpens>>

\* await readFileAsText(file); JSON.parse; validateBackup; the version check and
\* its confirm(); the preview confirm(); then exportData() is called
importRead ==
    /\ Running("importData", "read")
    /\ \E proceed \in BOOLEAN, confirmImport \in BOOLEAN :
        LET text == Top.file.text
            backup == JSONparse(text)
            validation == validateBackup(backup)
            versionPrompt == IF isCompatibleVersion(backup.version) THEN <<>>
                             ELSE <<[ask |-> "version", answer |-> proceed]>>
            previewPrompt == <<[ask |-> "preview", answer |-> confirmImport]>>
            thrown ==
                IF ~JSONparses(text) THEN [error |-> "SyntaxError", prompts |-> <<>>]
                ELSE IF ~validation.valid THEN [error |-> validation.error, prompts |-> <<>>]
                ELSE IF versionPrompt # <<>> /\ ~proceed
                THEN [error |-> "Import cancelled by user", prompts |-> versionPrompt]
                ELSE IF ~Has(backup, "metadata")
                THEN [error |-> "TypeError", prompts |-> versionPrompt]
                ELSE IF ~confirmImport
                THEN [error |-> "Import cancelled by user",
                      prompts |-> versionPrompt \o previewPrompt]
                ELSE [error |-> "", prompts |-> versionPrompt \o previewPrompt]
        IN  IF thrown.error # ""
            THEN /\ stack' = Callers
                 /\ ret' = ImportFailed([Top EXCEPT !.prompts = thrown.prompts], thrown.error)
            ELSE /\ stack' = Goto([Top EXCEPT !.pc = "snapshot", !.prompts = thrown.prompts]
                                  @@ [backup |-> backup]) \o <<ExportCall>>
                 /\ UNCHANGED ret
    /\ UNCHANGED <<db, idb, available, stores, keyGen, now, last, localStorage, theme, currentScale,
                   lastSaved, downloads, calls, tasks, pendingOpens>>

\* after `await exportData()`: its result is logged, not examined; clearStore('themes') is called
importSnapshot ==
    /\ Running("importData", "snapshot")
    /\ stack' = Goto([Top EXCEPT !.pc = "clear"] @@ [preImportBackup |-> ret, store |-> "themes"])
    /\ UNCHANGED <<db, idb, available, stores, keyGen, now, last, localStorage, theme, currentScale,
                   ret, lastSaved, downloads, calls, tasks, pendingOpens>>

\* importClear leaving alone a collection the document has no section for
importClear_KeepsAbsent ==
    /\ Running("importData", "clear")
    /\ LET s == Top.store
           res == Call(db, available, stores, keyGen,
                       IF Has(Top.backup.data, s) THEN clearStoreTx(stores, keyGen, s)
                       ELSE getAllItemsTx(stores, keyGen, s))
           next == NextInsert(Top.backup, "themes", 0)
       IN  /\ Engine(res)
           /\ IF ~res.ok
              THEN /\ stack' = Callers
                   /\ ret' = ImportFailed(Top, res.error)
              ELSE /\ stack' = Goto(
                        IF s = "themes" THEN [Top EXCEPT !.store = "operations"]
                        ELSE IF s = "operations" THEN [Top EXCEPT !.store = "workspaces"]
                        ELSE [Top EXCEPT !.pc = next.pc, !.store = next.store]
                             @@ [index |-> next.index, timestamp |-> now,
                                 imported |-> [themes |-> 0, operations |-> 0, workspaces |-> 0]])
                   /\ UNCHANGED ret
    /\ UNCHANGED <<available, now, last, localStorage, theme, currentScale, lastSaved, downloads, calls, tasks, pendingOpens>>

\* await clearStore('themes'); await clearStore('operations'); await clearStore('workspaces')
importClear ==
    /\ Running("importData", "clear")
    /\ LET s == Top.store
           res == Call(db, available, stores, keyGen, clearStoreTx(stores, keyGen, s))
           next == NextInsert(Top.backup, "themes", 0)
       IN  /\ Engine(res)
           /\ IF ~res.ok
              THEN /\ stack' = Callers
                   /\ ret' = ImportFailed(Top, res.error)
              ELSE /\ stack' = Goto(
                        IF s = "themes" THEN [Top EXCEPT !.store = "operations"]
                        ELSE IF s = "operations" THEN [Top EXCEPT !.store = "workspaces"]
                        ELSE [Top EXCEPT !.pc = next.pc, !.store = next.store]
                             @@ [index |-> next.index, timestamp |-> now,
                                 imported |-> [themes |-> 0, operations |-> 0, workspaces |-> 0]])
                   /\ UNCHANGED ret
    /\ UNCHANGED <<available, now, last, localStorage, theme, currentScale, lastSaved, downloads, calls, tasks, pendingOpens>>

\* await addItem(store, record) in one of the three loops, and the count
importInsert ==
    /\ Running("importData", "insert")
    /\ LET s == Top.store
           res == Call(db, available, stores, keyGen,
                       addItemTx(stores, keyGen, s, ImportedRecord(Top.backup, s, Top.index), now))
           next == NextInsert(Top.backup, s, Top.index)
       IN  /\ Engine(res)
           /\ IF ~res.ok
              THEN /\ stack' = Callers
                   /\ ret' = ImportFailed(Top, res.error)
              ELSE /\ stack' = Goto([Top EXCEPT !.pc = next.pc, !.store = next.store,
                                                !.index = next.index, !.timestamp = now,
                                                !.imported[s] = @ + 1])
                   /\ UNCHANGED ret
    /\ UNCHANGED <<available, now, last, localStorage, theme, currentScale, lastSaved, downloads, calls, tasks, pendingOpens>>

\* importRecord going on to loadTheme whatever addItem answered
importRecord_IgnoresFailure ==
    /\ Running("importData", "record")
    /\ LET record == [timestamp |-> Top.timestamp, version |-> Top.backup.version,
                      type |-> "import", filename |-> Top.file.name,
                      imported |-> Top.imported,
                      originalTimestamp |-> Top.backup.timestamp]
           res == Call(db, available, stores, keyGen,
                       addItemTx(stores, keyGen, "backups", record, now))
       IN  /\ Engine(res)
           /\ stack' = Goto([Top EXCEPT !.pc = "reload"]) \o <<LoadFrame>>
           /\ UNCHANGED ret
    /\ UNCHANGED <<available, now, last, localStorage, theme, currentScale, lastSaved, downloads, calls, tasks, pendingOpens>>

\* await addItem('backups', { timestamp: Date.now(), ... }), its timestamp read when
\* the call was made; then loadTheme() is called
importRecord ==
    /\ Running("importData", "record")
    /\ LET record == [timestamp |-> Top.timestamp, version |-> Top.backup.version,
                      type |-> "import", filename |-> Top.file.name,
                      imported |-> Top.imported,
                      originalTimestamp |-> Top.backup.timestamp]
           res == Call(db, available, stores, keyGen,
                       addItemTx(stores, keyGen, "backups", record, now))
       IN  /\ Engine(res)
           /\ IF ~res.ok
              THEN /\ stack' = Callers
                   /\ ret' = ImportFailed(Top, res.error)
              ELSE /\ stack' = Goto([Top EXCEPT !.pc = "reload"]) \o <<LoadFrame>>
                   /\ UNCHANGED ret
    /\ UNCHANGED <<available, now, last, localStorage, theme, currentScale, lastSaved, downloads, calls, tasks, pendingOpens>>

\* after `await loadTheme()`: applyTheme(theme); setScale(currentScale); return success
importReloaded ==
    /\ Running("importData", "reload")
    /\ LET set == setScale(theme, currentScale)
       IN  /\ theme' = set.theme
           /\ currentScale' = set.currentScale
    /\ stack' = Callers
    /\ ret' = [fn |-> "importData", success |-> TRUE, imported |-> Top.imported, call |-> Top]
    /\ UNCHANGED <<db, idb, available, stores, keyGen, now, last, localStorage, lastSaved, downloads, calls, tasks, pendingOpens>>

\* ------------------------------------------------ files offered to importData
ThemeRecord == themeData([DefaultTheme EXCEPT !.colors = AmberColors], 105, 1)
OperationRecord == [id |-> 1, type |-> "a", timestamp |-> 1]
WorkspaceRecord == [id |-> 1, name |-> "w", timestamp |-> 1]

Document(magic, version, data) ==
    [ magic |-> magic, version |-> version, timestamp |-> 1, date |-> [iso |-> 1],
      data |-> data,
      metadata |-> [themesCount |-> Len(Section([data |-> data], "themes")),
                    operationsCount |-> Len(Section([data |-> data], "operations")),
                    workspacesCount |-> Len(Section([data |-> data], "workspaces")),
                    exportedBy |-> "ODS v9.1", userAgent |-> "navigator.userAgent"] ]

FullData ==
    [themes |-> <<ThemeRecord>>, operations |-> <<OperationRecord>>, workspaces |-> <<WorkspaceRecord>>]
EmptyData == [themes |-> <<>>, operations |-> <<>>, workspaces |-> <<>>]
NoOperationsData == [themes |-> <<ThemeRecord>>, workspaces |-> <<WorkspaceRecord>>]
\* two operations under one id, which is also the first key the engine hands out
DuplicateIdsData ==
    [themes |-> <<ThemeRecord>>,
     operations |-> <<OperationRecord, [id |-> 1, type |-> "b", timestamp |-> 1]>>,
     workspaces |-> <<>>]
\* two themes under one id: the second insertion fails
DuplicateThemesData ==
    [themes |-> <<ThemeRecord, ThemeRecord>>, operations |-> <<OperationRecord>>, workspaces |-> <<>>]

ImportDocuments ==
    { Document(BACKUP_MAGIC, V91, FullData),
      Document(BACKUP_MAGIC, V90, EmptyData),
      Document(BACKUP_MAGIC, V91, NoOperationsData),
      Document(BACKUP_MAGIC, V91, DuplicateIdsData),
      Document(BACKUP_MAGIC, V91, DuplicateThemesData),
      Document(BACKUP_MAGIC, V85, FullData),
      Document("ODS_BACKUP_v8", V91, FullData),
      Without(Document(BACKUP_MAGIC, V85, EmptyData), "magic"),
      Without(Document(BACKUP_MAGIC, V91, FullData), "metadata"),
      [magic |-> "ODS_BACKUP_v8"] }

ImportFiles ==
    { [name |-> <<"import.json">>, text |-> JSONstringify(d)] : d \in ImportDocuments }
        \cup { [name |-> <<"import.json">>, text |-> NotJSON] }

\* the files a user can pick: prepared ones, and the file exportData downloaded last
PickableFiles == ImportFiles \cup (IF downloads = NoFile THEN {} ELSE {downloads})

SeedStores == {"themes", "operations", "workspaces"}

NextBackup ==
    \/ \E s \in SeedStores : \E data \in AddInputs(s) : addItem(s, data)
    \/ exportData
    \/ exportGather
    \/ exportWrite
    \/ exportRecord
    \/ clearBackupHistory
    \/ \E file \in PickableFiles : importData(file)
    \/ importRead
    \/ importSnapshot
    \/ importClear
    \/ importInsert
    \/ importRecord
    \/ importReloaded
    \/ saveThemeCheck
    \/ saveThemeWrite
    \/ loadThemeGet
    \/ loadThemeSaved
    \/ Tick
    \/ EngineToggle

SpecBackup == Init /\ [][NextBackup]_vars

\* --------------------------------------------- backup.js: exportData alone
\* Exports, one at a time, of a database that the theme handlers write to.
NextExport ==
    \/ scaleUp
    \/ scaleDown
    \/ saveThemeCheck
    \/ saveThemeWrite
    \/ exportData
    \/ exportGather
    \/ exportWrite
    \/ exportRecord
    \/ clearBackupHistory
    \/ Tick
    \/ EngineToggle

\* the await at which exportData stands
ExportPc == IF stack # <<>> /\ Top.fn = "exportData" THEN Top.pc ELSE "none"

\* Every request exportData awaits is answered, with success or with an error, so
\* the code after each await runs.  Each of these steps moves exportData on.
ExportFairness ==
    /\ WF_ExportPc(exportGather)
    /\ WF_ExportPc(exportWrite)
    /\ WF_ExportPc(exportRecord)

SpecExport == Init /\ [][NextExport]_vars /\ ExportFairness

\* ------------------------------------------ backup.js: validateBackup alone
\* Values a document can carry as its data: keyed structures, strings and numbers
\* (truthy and falsy), and an array.
DataValues ==
    { EmptyData, FullData,
      [primitive |-> "string", falsy |-> FALSE], [primitive |-> "string", falsy |-> TRUE],
      [primitive |-> "number", falsy |-> FALSE], [primitive |-> "number", falsy |-> TRUE],
      [array |-> <<OperationRecord>>] }

\* Documents with any of the four attributes absent, empty or wrong
ValidateDocuments ==
    { Omit(Spread([magic |-> m, version |-> v, timestamp |-> t], [data |-> d]), absent) :
          m \in {BACKUP_MAGIC, "ODS_BACKUP_v8", ""}, v \in {V91, V85, <<>>}, t \in {0, 1},
          d \in DataValues, absent \in SUBSET {"magic", "version", "timestamp", "data"} }

InitValidate ==
    /\ \E backup \in ValidateDocuments :
           stack = <<[fn |-> "validateBackup", pc |-> "call", backup |-> backup]>>
    /\ db = NULL
    /\ available = TRUE
    /\ stores = [s \in StoreNames |-> EmptyMap]
    /\ keyGen = [s \in AutoStores |-> 1]
    /\ now = 1
    /\ last = NoCall
    /\ localStorage = EmptyMap
    /\ theme = DefaultTheme
    /\ currentScale = DefaultScale.current
    /\ ret = NoRet
    /\ lastSaved = NoSave
    /\ downloads = NoFile
    /\ calls = 0
    /\ tasks = [c \in TaskIds |-> NoTask]
    /\ pendingOpens = 0
    /\ idb = NoDatabase

\* validateBackup(backup) is called and returns its verdict
validateBackupCalled ==
    /\ Running("validateBackup", "call")
    /\ stack' = Callers
    /\ ret' = [fn |-> "validateBackup", backup |-> Top.backup,
               validation |-> validateBackup(Top.backup)]
    /\ UNCHANGED <<db, idb, available, stores, keyGen, now, last, localStorage, theme, currentScale,
                   lastSaved, downloads, calls, tasks, pendingOpens>>

NextValidate == validateBackupCalled

SpecValidate == InitValidate /\ [][NextValidate]_vars

\* ------------------------------- database.js: concurrent callers and getDB
\* The calls the concurrent callers make, all on the themes store.
TaskCalls ==
    { [op |-> "addItem", store |-> "themes", arg |-> [id |-> "default", colors |-> DefaultColors]],
      [op |-> "getItem", store |-> "themes", key |-> "default"],
      [op |-> "getAllItems", store |-> "themes"],
      [op |-> "updateItem", store |-> "themes", key |-> "default", arg |-> [colors |-> AmberColors]],
      [op |-> "deleteItem", store |-> "themes", key |-> "default"],
      [op |-> "clearStore", store |-> "themes"] }

\* what the transaction of a call does on an answering engine
TransactionOf(call, st, kg, t) ==
    CASE call.op = "addItem" -> addItemTx(st, kg, call.store, call.arg, t)
      [] call.op = "getItem" -> getItemTx(st, kg, call.store, call.key)
      [] call.op = "getAllItems" -> getAllItemsTx(st, kg, call.store)
      [] call.op = "updateItem" -> updateItemTx(st, kg, call.store, call.key, call.arg, t)
      [] call.op = "deleteItem" -> deleteItemTx(st, kg, call.store, call.key)
      [] call.op = "clearStore" -> clearStoreTx(st, kg, call.store)

\* the outcome a caller gets, kept in `last`
Settled(call, res) ==
    call @@ [ok |-> res.ok, error |-> res.error, value |-> res.value,
             before |-> [stores |-> stores, keyGen |-> keyGen, now |-> now]]

\* A caller starts a call, which runs to the first await of getDB: with no handle
\* yet, initDB issues indexedDB.open and the caller waits for its answer; with a
\* handle, the caller goes on to its transaction.
getDBCalled(c, call) ==
    /\ stack = <<>>
    /\ tasks[c] = NoTask
    /\ IF db = NULL
       THEN /\ pendingOpens' = pendingOpens + 1
            /\ tasks' = [tasks EXCEPT ![c] = [pc |-> "opening", call |-> call]]
       ELSE /\ tasks' = [tasks EXCEPT ![c] = [pc |-> "transaction", call |-> call]]
            /\ UNCHANGED pendingOpens
    /\ UNCHANGED <<db, idb, available, stores, keyGen, now, last, localStorage, theme, currentScale,
                   stack, ret, lastSaved, downloads, calls>>

\* The open request of a caller is answered: onsuccess sets `db` and the caller
\* goes on to its transaction; onerror rejects the call.
initDBAnswered(c) ==
    /\ tasks[c].pc = "opening"
    /\ pendingOpens' = pendingOpens - 1
    /\ LET conn == initDB(available)
       IN  IF conn.ok
           THEN /\ db' = conn.db
                /\ idb' = conn.idb
                /\ tasks' = [tasks EXCEPT ![c].pc = "transaction"]
                /\ UNCHANGED last
           ELSE /\ tasks' = [tasks EXCEPT ![c] = NoTask]
                /\ last' = Settled(tasks[c].call,
                                   Outcome(FALSE, conn.error, UNDEFINED, stores, keyGen))
                /\ UNCHANGED <<db, idb>>
    /\ UNCHANGED <<available, stores, keyGen, now, localStorage, theme, currentScale,
                   stack, ret, lastSaved, downloads, calls>>

\* The transaction of a caller completes, or fails on an engine that stopped answering.
transactionDone(c) ==
    /\ tasks[c].pc = "transaction"
    /\ LET call == tasks[c].call
           res == IF available THEN TransactionOf(call, stores, keyGen, now)
                  ELSE Outcome(FALSE, "TransactionError", UNDEFINED, stores, keyGen)
       IN  /\ stores' = res.stores
           /\ keyGen' = res.keyGen
           /\ last' = Settled(call, res)
    /\ tasks' = [tasks EXCEPT ![c] = NoTask]
    /\ UNCHANGED <<db, idb, available, now, localStorage, theme, currentScale,
                   stack, ret, lastSaved, downloads, calls, pendingOpens>>

NextOpen ==
    \/ \E c \in TaskIds : \E call \in TaskCalls : getDBCalled(c, call)
    \/ \E c \in TaskIds : initDBAnswered(c)
    \/ \E c \in TaskIds : transactionDone(c)
    \/ Tick
    \/ EngineToggle

SpecOpen == Init /\ [][NextOpen]_vars

\* ------------------------- database.js: initDB, databaseExists and deleteDB
\* indexedDB.open(DB_NAME) with no version: the database is opened as it is; one
\* that does not exist is created at version 1, and with no onupgradeneeded
\* handler on the request it gets no object stores
IDBOpenCurrent(database) ==
    IF database.version = 0 THEN [version |-> 1, objectStoreNames |-> {}] ELSE database

\* what a call on the database itself started from, kept in `last`
SchemaBefore ==
    [idb |-> idb, db |-> db, available |-> available, stores |-> stores, keyGen |-> keyGen]

\* a call on the database itself returns: nothing but db, idb, the stores and last moves
SchemaReturned ==
    /\ stack = <<>>
    /\ ret' = NoRet
    /\ UNCHANGED <<available, now, localStorage, theme, currentScale, stack, lastSaved,
                   downloads, calls, tasks, pendingOpens>>

\* a caller invokes initDB(): onsuccess sets `db`, onerror leaves it
initDBCalled ==
    /\ LET conn == initDB(available)
       IN  /\ db' = IF conn.ok THEN conn.db ELSE db
           /\ idb' = conn.idb
           /\ last' = [op |-> "initDB", ok |-> conn.ok, error |-> conn.error,
                       before |-> SchemaBefore]
    /\ UNCHANGED <<stores, keyGen>>
    /\ SchemaReturned

\* a caller invokes databaseExists(), on a browser that has indexedDB.databases()
\* or on one that has not; a rejected databases() also goes to the fallback
databaseExists ==
    /\ \E enumerates \in BOOLEAN :
        IF enumerates /\ available
        THEN /\ last' = [op |-> "databaseExists", path |-> "enumeration",
                         value |-> (idb.version > 0), before |-> SchemaBefore]
             /\ UNCHANGED idb
        ELSE /\ idb' = IF available THEN IDBOpenCurrent(idb) ELSE idb
             /\ last' = [op |-> "databaseExists", path |-> "fallback",
                         value |-> available, before |-> SchemaBefore]
    /\ UNCHANGED <<db, stores, keyGen>>
    /\ SchemaReturned

\* deleteDB leaving `db` as it is
deleteDB_KeepsHandle ==
    /\ \E blocked \in BOOLEAN :
        /\ blocked => available /\ idb.version > 0
        /\ UNCHANGED db
        /\ IF available /\ ~blocked
           THEN /\ idb' = NoDatabase
                /\ stores' = [s \in StoreNames |-> EmptyMap]
                /\ keyGen' = [s \in AutoStores |-> 1]
                /\ last' = [op |-> "deleteDB", blocked |-> FALSE, ok |-> TRUE, error |-> "",
                            before |-> SchemaBefore]
           ELSE /\ UNCHANGED <<idb, stores, keyGen>>
                /\ last' = [op |-> "deleteDB", blocked |-> blocked, ok |-> FALSE,
                            error |-> IF blocked THEN "Database deletion blocked"
                                      ELSE "DeleteError",
                            before |-> SchemaBefore]
    /\ SchemaReturned

\* a caller invokes deleteDB(): the handle is closed and dropped, then
\* indexedDB.deleteDatabase succeeds, fails, or is blocked by a connection that
\* another page holds open
deleteDB ==
    /\ \E blocked \in BOOLEAN :
        /\ blocked => available /\ idb.version > 0
        /\ db' = NULL
        /\ IF available /\ ~blocked
           THEN /\ idb' = NoDatabase
                /\ stores' = [s \in StoreNames |-> EmptyMap]
                /\ keyGen' = [s \in AutoStores |-> 1]
                /\ last' = [op |-> "deleteDB", blocked |-> FALSE, ok |-> TRUE, error |-> "",
                            before |-> SchemaBefore]
           ELSE /\ UNCHANGED <<idb, stores, keyGen>>
                /\ last' = [op |-> "deleteDB", blocked |-> blocked, ok |-> FALSE,
                            error |-> IF blocked THEN "Database deletion blocked"
                                      ELSE "DeleteError",
                            before |-> SchemaBefore]
    /\ SchemaReturned

NextSchema ==
    \/ initDBCalled
    \/ databaseExists
    \/ deleteDB
    \/ \E s \in SeedStores : \E data \in AddInputs(s) : addItem(s, data)
    \/ \E s \in SeedStores : getAllItems(s)
    \/ Tick
    \/ EngineToggle

SpecSchema == Init /\ [][NextSchema]_vars

\* -------------------- theme.js: saveTheme calls that nothing waits for
\* scaleUp and scaleDown call saveTheme() and return; a save started so is a task
\* that goes on whenever the request it awaits is answered, while the page takes
\* further calls.  IndexedDB answers the requests of a page in the order in which
\* they were made: each task holds the ticket of the request it waits for.
InFlight == {c \in TaskIds : tasks[c].pc \in {"check", "update", "add"}}

NextTicket ==
    IF InFlight = {} THEN 1
    ELSE 1 + (CHOOSE n \in {tasks[c].ticket : c \in InFlight} :
                 \A c \in InFlight : tasks[c].ticket <= n)

Served(c) == c \in InFlight /\ \A d \in InFlight : tasks[c].ticket <= tasks[d].ticket

Started == Cardinality({c \in TaskIds : tasks[c].pc # "idle"})

\* saveTheme up to its first await: themeData is built and getItem is called
SaveTask(th, cs, t) ==
    [pc |-> "check", themeData |-> themeData(th, cs, t), started |-> Started + 1,
     ticket |-> NextTicket]

\* what a save that has returned leaves in its task: where it wrote and, when it
\* went through the catch block, the error that sent it there
SaveDone(task, tier, error) ==
    [pc |-> "done", themeData |-> task.themeData, started |-> task.started,
     tier |-> tier, error |-> error]

\* scaleUp() while earlier saves may be in flight
scaleUpNoWait(c) ==
    /\ stack = <<>>
    /\ tasks[c].pc = "idle"
    /\ currentScale + theme.scale.step <= DefaultScale.current + MaxScaleSteps * DefaultScale.step
    /\ LET set == setScale(theme, currentScale + theme.scale.step)
       IN  /\ theme' = set.theme
           /\ currentScale' = set.currentScale
           /\ tasks' = [tasks EXCEPT ![c] = SaveTask(set.theme, set.currentScale, now)]
    /\ UNCHANGED <<db, idb, available, stores, keyGen, now, last, localStorage, stack, ret,
                   lastSaved, downloads, calls, pendingOpens>>

\* scaleDown() while earlier saves may be in flight
scaleDownNoWait(c) ==
    /\ stack = <<>>
    /\ tasks[c].pc = "idle"
    /\ currentScale - theme.scale.step >= DefaultScale.current - MaxScaleSteps * DefaultScale.step
    /\ LET set == setScale(theme, currentScale - theme.scale.step)
       IN  /\ theme' = set.theme
           /\ currentScale' = set.currentScale
           /\ tasks' = [tasks EXCEPT ![c] = SaveTask(set.theme, set.currentScale, now)]
    /\ UNCHANGED <<db, idb, available, stores, keyGen, now, last, localStorage, stack, ret,
                   lastSaved, downloads, calls, pendingOpens>>

\* the catch block of the save of task c
saveThemeDiverted(c, error) ==
    LET data == fallbackThemeData(theme, currentScale, now)
    IN  /\ localStorage' = MapPut(localStorage, "ods_theme", JSONstringify(data))
        /\ lastSaved' = [saved |-> TRUE, value |-> ThemeValue(data)]
        /\ tasks' = [tasks EXCEPT ![c] = SaveDone(tasks[c], "ods_theme", error)]

\* the getItem of the save of task c is answered
saveThemeChecked(c) ==
    /\ Served(c)
    /\ tasks[c].pc = "check"
    /\ LET res == Call(db, available, stores, keyGen, getItemTx(stores, keyGen, "themes", "default"))
       IN  /\ Engine(res)
           /\ IF ~res.ok
              THEN saveThemeDiverted(c, res.error)
              ELSE /\ tasks' = [tasks EXCEPT ![c].pc = IF res.value # UNDEFINED THEN "update" ELSE "add",
                                             ![c].ticket = NextTicket]
                   /\ UNCHANGED <<localStorage, lastSaved>>
    /\ UNCHANGED <<available, now, last, theme, currentScale, stack, ret, downloads, calls,
                   pendingOpens>>

\* the updateItem or addItem of the save of task c is answered
saveThemeWritten(c) ==
    /\ Served(c)
    /\ tasks[c].pc \in {"update", "add"}
    /\ LET data == tasks[c].themeData
           res == IF tasks[c].pc = "update"
                  THEN Call(db, available, stores, keyGen,
                            updateItemTx(stores, keyGen, "themes", "default", data, now))
                  ELSE Call(db, available, stores, keyGen,
                            addItemTx(stores, keyGen, "themes", data, now))
       IN  /\ Engine(res)
           /\ IF ~res.ok
              THEN saveThemeDiverted(c, res.error)
              ELSE /\ localStorage' = MapPut(localStorage, "ods_theme_backup", JSONstringify(data))
                   /\ lastSaved' = [saved |-> TRUE, value |-> ThemeValue(data)]
                   /\ tasks' = [tasks EXCEPT ![c] = SaveDone(tasks[c], "themes", "")]
    /\ UNCHANGED <<available, now, last, theme, currentScale, stack, ret, downloads, calls,
                   pendingOpens>>

NextSaves ==
    \/ \E c \in TaskIds : scaleUpNoWait(c)
    \/ \E c \in TaskIds : scaleDownNoWait(c)
    \/ \E c \in TaskIds : saveThemeChecked(c)
    \/ \E c \in TaskIds : saveThemeWritten(c)
    \/ Tick
    \/ EngineToggle

SpecSaves == Init /\ [][NextSaves]_vars

\* ------------------------------ database.js: updateItem calls back to back
AltTypography == [fontFamily |-> "VT323", baseFontSize |-> 18]

\* the updates the concurrent callers make, all of themes['default']
UpdateCalls ==
    { [op |-> "updateItem", store |-> "themes", key |-> "default", arg |-> [colors |-> AmberColors]],
      [op |-> "updateItem", store |-> "themes", key |-> "default",
       arg |-> [typography |-> AltTypography]] }

\* The transaction of an updateItem call completes, or fails on an engine that
\* stopped answering; the caller keeps what it was answered.
updateItemSettled(c) ==
    /\ tasks[c].pc = "transaction"
    /\ LET call == tasks[c].call
           res == IF available THEN TransactionOf(call, stores, keyGen, now)
                  ELSE Outcome(FALSE, "TransactionError", UNDEFINED, stores, keyGen)
       IN  /\ stores' = res.stores
           /\ keyGen' = res.keyGen
           /\ last' = Settled(call, res)
           /\ tasks' = [tasks EXCEPT ![c] = [pc |-> "done", call |-> call, ok |-> res.ok,
                                             error |-> res.error]]
    /\ UNCHANGED <<db, idb, available, now, localStorage, theme, currentScale,
                   stack, ret, lastSaved, downloads, calls, pendingOpens>>

NextUpdates ==
    \/ \E data \in AddInputs("themes") : addItem("themes", data)
    \/ \E c \in TaskIds : \E call \in UpdateCalls : getDBCalled(c, call)
    \/ \E c \in TaskIds : initDBAnswered(c)
    \/ \E c \in TaskIds : updateItemSettled(c)
    \/ Tick
    \/ EngineToggle

SpecUpdates == Init /\ [][NextUpdates]_vars

\* ======================================================================
\* Claims
\* ======================================================================

\* C9: updateItem on a key absent from the collection fails with NotFound and
\* creates nothing: every store and key generator is as it was before the call.
C9_UpdateAbsentFails ==
    (last.op = "updateItem" /\ last.key \notin DOMAIN last.before.stores[last.store])
        => /\ ~last.ok
           /\ last.error = "NotFound"
           /\ stores = last.before.stores
           /\ keyGen = last.before.keyGen

\* a failed update of an absent key in a store that holds another record
C9_Witness ==
    /\ last.op = "updateItem"
    /\ ~last.ok
    /\ last.error = "NotFound"
    /\ DOMAIN stores[last.store] # {}
    /\ last.key \notin DOMAIN stores[last.store]

\* C10: a successful updateItem of key k stores the record under k with its key
\* field equal to k, whatever the patch says about the key field; the set of keys
\* of the collection, every other record and every other store are unchanged.
C10_UpdateKeepsKey ==
    (last.op = "updateItem" /\ last.ok)
        => LET s == last.store
               k == last.key
               old == last.before.stores
           IN  /\ k \in DOMAIN old[s]
               /\ DOMAIN stores[s] = DOMAIN old[s]
               /\ stores[s][k][STORES[s].keyPath] = k
               /\ \A j \in DOMAIN old[s] \ {k} : stores[s][j] = old[s][j]
               /\ \A o \in StoreNames \ {s} : stores[o] = old[o]

\* a successful update whose patch named another key
C10_Witness ==
    /\ last.op = "updateItem"
    /\ last.ok
    /\ Has(last.arg, STORES[last.store].keyPath)
    /\ last.arg[STORES[last.store].keyPath] # last.key
    /\ stores[last.store][last.key][STORES[last.store].keyPath] = last.key

\* C6: when loadTheme finds the engine unavailable after some saveTheme has
\* completed, the theme it returns comes from the Fallback Cache and equals the
\* value the most recently completed saveTheme saved.
C6_DegradedLoadReturnsLastSaved ==
    (/\ ret.fn = "loadTheme"
     /\ ret.source \in {"ods_theme", "ods_theme_backup", "memory"}
     /\ lastSaved.saved)
        => /\ ret.source \in {"ods_theme", "ods_theme_backup"}
           /\ ret.value = lastSaved.value

\* ---------------------------------------------------------------- importData
\* importData has returned, and nothing has been called since
ImportReturned == stack = <<>> /\ ret.fn = "importData"
\* the document of the file that import was given
ImportedDocument == JSONparse(ret.call.file.text)
\* the file is one exportData downloaded
ExportedFile(file) == file.name # <<>> /\ file.name[1] = "ods-backup-"
\* errors with which a database request fails
RequestErrors == {"OpenError", "TransactionError", "ConstraintError", "DataError"}
\* a collection holds the records of a list, up to the keys the database generates
EquivalentContent(s, records) ==
    LET content(r) == IF s = "themes" THEN r ELSE Without(r, "id")
    IN  /\ Cardinality(DOMAIN stores[s]) = Len(records)
        /\ {content(stores[s][k]) : k \in DOMAIN stores[s]}
               = {content(records[i]) : i \in 1..Len(records)}

\* C1: when the exportData call made inside importData returns failure, importData
\* returns failure and themes, operations and workspaces hold what they held when
\* importData was called.
C1_SnapshotFailureAborts ==
    (/\ ImportReturned
     /\ Has(ret.call, "preImportBackup")
     /\ ~ret.call.preImportBackup.success)
        => /\ ~ret.success
           /\ \A s \in SeedStores : stores[s] = ret.call.before[s]

\* C3: after a successful import of a file exportData downloaded, each of themes,
\* operations and workspaces holds the records the collection held at the export,
\* up to the regenerated keys of operations and workspaces.
C3_ExportImportRoundTrip ==
    (ImportReturned /\ ret.success /\ ExportedFile(ret.call.file))
        => \A s \in SeedStores : EquivalentContent(s, ImportedDocument.data[s])

\* C4: importing a document whose magic is absent or is not ODS_BACKUP_v9 fails
\* with the invalid-format error, and leaves themes, operations, workspaces and
\* backups as they were when importData was called.
C4_BadMagicRejected ==
    (/\ ImportReturned
     /\ JSONparses(ret.call.file.text)
     /\ (~Has(ImportedDocument, "magic") \/ ImportedDocument.magic # BACKUP_MAGIC))
        => /\ ~ret.success
           /\ ret.error = "Invalid backup file format"
           /\ stores = ret.call.before

\* a rejected document with another magic and full data, with a record in the database
C4_Witness ==
    /\ ImportReturned
    /\ ~ret.success
    /\ JSONparses(ret.call.file.text)
    /\ ImportedDocument = Document("ODS_BACKUP_v8", V91, FullData)
    /\ stores.operations # EmptyMap
    /\ stores = ret.call.before

\* the document passed validateBackup
ValidDocument == JSONparses(ret.call.file.text) /\ validateBackup(ImportedDocument).valid
\* the confirmation `ask` was requested during the import
Asked(ask) == \E i \in 1..Len(ret.call.prompts) : ret.call.prompts[i].ask = ask
\* the confirmation `ask` was requested and declined
Declined(ask) ==
    \E i \in 1..Len(ret.call.prompts) :
        ret.call.prompts[i].ask = ask /\ ~ret.call.prompts[i].answer
\* a document of another major version is imported only past a version confirmation,
\* and declining it fails the import with every store as it was
MajorMismatchGated ==
    (ImportReturned /\ ValidDocument /\ FirstPart(ImportedDocument.version) # <<"9">>)
        => /\ Asked("version")
           /\ Declined("version")
                => /\ ~ret.success
                   /\ ret.error = "Import cancelled by user"
                   /\ stores = ret.call.before

\* C5 as stated: a document of another major version mutates nothing unless the
\* version mismatch is confirmed, and fails otherwise; a document of major version
\* 9 is imported with no confirmation requested at all.
C5_VersionGating_AsStated ==
    /\ MajorMismatchGated
    /\ (ImportReturned /\ ValidDocument /\ FirstPart(ImportedDocument.version) = <<"9">>)
           => ret.call.prompts = <<>>


\* C5: a document of another major version mutates nothing unless the version
\* mismatch is confirmed, and fails otherwise; a document of major version 9, with
\* any minor version, is never asked to confirm its version: the one confirmation
\* requested is the import preview that every import requests.
C5_VersionGating ==
    /\ MajorMismatchGated
    /\ (ImportReturned /\ ValidDocument /\ FirstPart(ImportedDocument.version) = <<"9">>)
           => /\ ~Asked("version")
              /\ ret.success => ret.call.prompts = <<[ask |-> "preview", answer |-> TRUE]>>

\* a 9.0 document imported after the preview confirmation alone
C5_Witness ==
    /\ ImportReturned
    /\ ret.success
    /\ ImportedDocument.version = V90
    /\ ret.call.prompts = <<[ask |-> "preview", answer |-> TRUE]>>

\* C7: after a successful import, each of themes, operations and workspaces whose
\* data section in the document is empty or absent is empty.
C7_EmptySectionLeavesEmpty ==
    (ImportReturned /\ ret.success)
        => \A s \in SeedStores :
               Len(Section(ImportedDocument, s)) = 0 => stores[s] = EmptyMap

\* C8: an import of a valid document without data.operations fails only when the
\* user cancels or a database request fails; when it succeeds it reports 0 imported
\* operations and the operations collection is empty.
C8_MissingOperationsImports ==
    (ImportReturned /\ ValidDocument /\ ~Has(ImportedDocument.data, "operations"))
        => IF ret.success
           THEN ret.imported.operations = 0 /\ stores.operations = EmptyMap
           ELSE ret.error \in RequestErrors \cup {"Import cancelled by user"}

\* a successful import without data.operations into a database that held an operation
C8_Witness ==
    /\ ImportReturned
    /\ ret.success
    /\ ~Has(ImportedDocument.data, "operations")
    /\ ret.call.before.operations # EmptyMap
    /\ ret.imported.operations = 0
    /\ stores.operations = EmptyMap


\* ------------------------------------------------------------------- getDB
\* C2: whatever calls are started before the first open has succeeded, at most one
\* open request is in flight.
C2_SingleFlightOpen == pendingOpens <= 1


\* ------------------------------------------------------------ database.js
\* the store, key, patch and outcome of the latest call, for the claims below
LastStore == last.store
LastOld == last.before.stores[last.store]

\* C11 as stated: after a successful updateItem of key k, every field of the patch
\* other than modified has the patch's value, every stored field the patch lacks
\* is kept, modified is the time of the call, and the value returned is the record
\* getItem reads under k.
C11_UpdateMerges_AsStated ==
    (last.op = "updateItem" /\ last.ok)
        => LET old == LastOld[last.key]
               new == getItemTx(stores, keyGen, LastStore, last.key).value
           IN  /\ \A f \in DOMAIN last.arg \ {"modified"} : new[f] = last.arg[f]
               /\ \A f \in DOMAIN old \ (DOMAIN last.arg \cup {"modified"}) : new[f] = old[f]
               /\ new.modified = last.before.now
               /\ last.value = new

\* C11: after a successful updateItem of key k, every field of the patch other than
\* modified and the key field has the patch's value, the key field is k, every
\* stored field the patch lacks is kept, no other field appears, modified is the
\* time of the call, and the value returned is the record getItem reads under k.
C11_UpdateMerges ==
    (last.op = "updateItem" /\ last.ok)
        => LET old == LastOld[last.key]
               new == getItemTx(stores, keyGen, LastStore, last.key).value
               kp == STORES[LastStore].keyPath
           IN  /\ DOMAIN new = DOMAIN old \cup DOMAIN last.arg \cup {"modified"}
               /\ \A f \in DOMAIN last.arg \ {"modified", kp} : new[f] = last.arg[f]
               /\ new[kp] = last.key
               /\ \A f \in DOMAIN old \ (DOMAIN last.arg \cup {"modified"}) : new[f] = old[f]
               /\ new.modified = last.before.now
               /\ last.value = new

\* an update whose patch replaces a field, carries its own modified, and leaves
\* the stored timestamp alone
C11_Witness ==
    /\ last.op = "updateItem"
    /\ last.ok
    /\ LastStore = "operations"
    /\ last.arg.modified # last.before.now
    /\ stores.operations[last.key].type = last.arg.type
    /\ LastOld[last.key].type # last.arg.type
    /\ stores.operations[last.key].timestamp = LastOld[last.key].timestamp
    /\ stores.operations[last.key].modified = last.before.now

\* C12: deleteItem succeeds whether or not the key is there; it removes the record
\* under the key and no other, so deleting an absent key (a second delete of the
\* same key) changes nothing.
C12_DeleteIdempotent ==
    (last.op = "deleteItem")
        => /\ last.ok
           /\ last.error = ""
           /\ stores = [last.before.stores EXCEPT ![LastStore] = MapDel(@, last.key)]
           /\ last.key \notin DOMAIN LastOld => stores = last.before.stores
           /\ keyGen = last.before.keyGen

\* a successful delete of an absent key from a store that holds another record
C12_Witness ==
    /\ last.op = "deleteItem"
    /\ last.ok
    /\ last.key \notin DOMAIN LastOld
    /\ DOMAIN stores[LastStore] # {}

\* the input of the latest addItem with timestamp set where addItem sets it
Stamped(data, t) ==
    IF ~Has(data, "timestamp") \/ data.timestamp = 0 THEN Spread(data, [timestamp |-> t]) ELSE data

C14_DuplicateKeyRejected ==
    (/\ last.op = "addItem"
     /\ LastStore \in {"themes", "backups"}
     /\ Has(Stamped(last.arg, last.before.now), STORES[LastStore].keyPath)
     /\ Stamped(last.arg, last.before.now)[STORES[LastStore].keyPath] \in DOMAIN LastOld)
        => /\ ~last.ok
           /\ last.error = "ConstraintError"
           /\ stores = last.before.stores

\* a rejected add of a second theme record with the id of the stored one
C14_Witness ==
    /\ last.op = "addItem"
    /\ LastStore = "themes"
    /\ ~last.ok
    /\ last.error = "ConstraintError"
    /\ last.arg.id \in DOMAIN stores.themes
    /\ stores = last.before.stores


\* ---------------------------------------------------------------- exportData
\* exportData has just returned, to its caller or to importData
ExportReturned ==
    ret.fn = "exportData" /\ (stack = <<>> \/ Running("importData", "snapshot"))

\* C15: exportData returns success only with its summary record stored; when any
\* stage failed it returns a failure result carrying the error, and backups (and
\* every other store) holds what it held when the export started.
C15_ExportFailureRecordsNothing ==
    ExportReturned
        => IF ret.success
           THEN /\ ret.record.timestamp \in DOMAIN stores.backups
                /\ stores.backups[ret.record.timestamp] = ret.record
           ELSE /\ Has(ret, "error")
                /\ stores = ret.before

\* an export that failed at the recording stage, after the download, with a
\* record in backups
C15_Witness ==
    /\ ExportReturned
    /\ ~ret.success
    /\ ret.error = "ConstraintError"
    /\ downloads # NoFile
    /\ stores.backups # EmptyMap
    /\ stores.backups = ret.before.backups

\* C16: after a successful exportData the downloaded document's data has exactly
\* the sections themes, operations and workspaces, each holding the records of
\* its collection; the metadata counts are the lengths of the sections; and
\* backups holds what it held before plus one record, under the document's
\* timestamp, carrying the same three counts.
C16_ExportDocument ==
    (ExportReturned /\ ret.success)
        => LET doc == JSONparse(downloads.text)
               t == doc.timestamp
           IN  /\ DOMAIN doc.data = SeedStores
               /\ \A s \in SeedStores :
                      doc.data[s] = getAllItemsTx(ret.before, keyGen, s).value
               /\ doc.metadata.themesCount = Len(doc.data.themes)
               /\ doc.metadata.operationsCount = Len(doc.data.operations)
               /\ doc.metadata.workspacesCount = Len(doc.data.workspaces)
               /\ t \notin DOMAIN ret.before.backups
               /\ DOMAIN stores.backups = DOMAIN ret.before.backups \cup {t}
               /\ \A k \in DOMAIN ret.before.backups : stores.backups[k] = ret.before.backups[k]
               /\ stores.backups[t].timestamp = t
               /\ stores.backups[t].counts = [s \in SeedStores |-> Len(doc.data[s])]

\* a successful export of a database holding a theme and an earlier backup record
C16_Witness ==
    /\ ExportReturned
    /\ ret.success
    /\ ret.before.backups # EmptyMap
    /\ Len(JSONparse(downloads.text).data.themes) = 1
    /\ Cardinality(DOMAIN stores.backups) = 2


\* ------------------------------------------------------------ validateBackup
\* the attribute is there and is not an empty or zero value
Present(backup, f) ==
    /\ Has(backup, f)
    /\ CASE f = "magic" -> backup.magic # ""
         [] f = "version" -> backup.version # <<>>
         [] f = "timestamp" -> backup.timestamp # 0
         [] f = "data" -> ~Falsy(backup.data)
\* the data section is a keyed structure: not a string, a number or an array
Keyed(data) == ~Has(data, "primitive") /\ ~Has(data, "array")

\* C17: validateBackup, for a document with the right magic, answers with the
\* missing-version error when version is absent, else the missing-timestamp error
\* when timestamp is absent, else the missing-data error when data is absent, else
\* the invalid-data error when data is not a keyed structure, and accepts the
\* document when all four attributes are there and data is keyed.
C17_ValidationRejectsInvalid ==
    (ret.fn = "validateBackup" /\ Present(ret.backup, "magic") /\ ret.backup.magic = BACKUP_MAGIC)
        => LET backup == ret.backup
               validation == ret.validation
           IN  /\ ~Has(backup, "version")
                    => ~validation.valid /\ validation.error = "Missing version information"
               /\ (Present(backup, "version") /\ ~Has(backup, "timestamp"))
                    => ~validation.valid /\ validation.error = "Missing timestamp"
               /\ (Present(backup, "version") /\ Present(backup, "timestamp")
                     /\ ~Has(backup, "data"))
                    => ~validation.valid /\ validation.error = "Missing data section"
               /\ (Present(backup, "version") /\ Present(backup, "timestamp")
                     /\ Present(backup, "data"))
                    => IF Keyed(backup.data) THEN validation.valid
                       ELSE ~validation.valid /\ validation.error = "Invalid data structure"


\* ------------------------------------------------------------------ theme.js
\* the localStorage entries that hold a theme record
FallbackSlots == {"ods_theme", "ods_theme_backup"} \cap DOMAIN localStorage

\* C18: when loadTheme has migrated a theme from the Fallback Cache, themes holds
\* a default record with the colors, typography and scale of that theme, which
\* loadTheme returns, and no localStorage entry holds a theme record.
C18_MigrationClearsFallback ==
    (ret.fn = "loadTheme" /\ ret.source = "migrated")
        => /\ "default" \in DOMAIN stores.themes
           /\ ThemeValue(stores.themes["default"]) = ThemeValue(ret.value)
           /\ FallbackSlots = {}

\* C19: when saveTheme has stored the theme through the engine, themes holds the
\* default record with the saved colors, typography and scale, and the
\* localStorage entry a loadTheme would read holds the same value.
C19_SaveMirrored ==
    (ret.fn = "saveTheme" /\ ret.tier = "themes")
        => /\ "default" \in DOMAIN stores.themes
           /\ ThemeValue(stores.themes["default"]) = lastSaved.value
           /\ FallbackSlots # {}
           /\ LET key == IF Has(localStorage, "ods_theme") THEN "ods_theme"
                         ELSE "ods_theme_backup"
              IN  ThemeValue(JSONparse(localStorage[key])) = lastSaved.value

\* C20: when deleteTheme has returned, with the engine available or not, themes
\* holds no default record and no localStorage entry holds a theme record.
C20_DeleteClearsBothTiers ==
    (ret.fn = "deleteTheme")
        => /\ "default" \notin DOMAIN stores.themes
           /\ FallbackSlots = {}

\* C21: when loadTheme, with the engine answering throughout, has found no default
\* record in themes and no theme in localStorage, themes holds afterwards a default
\* record with the compiled-in colors, typography and scale, and loadTheme returns
\* these.
C21_TotalMissPersistsDefaults ==
    (/\ ret.fn = "loadTheme"
     /\ ret.source = "defaults"
     /\ ret.cached = {}
     /\ ret.saved = "themes")
        => /\ "default" \in DOMAIN stores.themes
           /\ ThemeValue(stores.themes["default"]) = DefaultTheme
           /\ ret.value = DefaultTheme

\* ---------------------------------------------------------- importData, again
\* C22: after a successful import, operations and workspaces each hold as many
\* records as the document's section, with the contents of the section's records
\* under keys the engine generated during the import (none of them a key handed
\* out before it), and every themes record of the document is in themes under
\* its own id.
C22_ImportRegeneratesKeys ==
    (ImportReturned /\ ret.success)
        => /\ \A s \in AutoStores :
                  /\ EquivalentContent(s, Section(ImportedDocument, s))
                  /\ \A k \in DOMAIN stores[s] : k >= ret.call.keyGen[s]
           /\ \A i \in 1..Len(Section(ImportedDocument, "themes")) :
                  LET r == Section(ImportedDocument, "themes")[i]
                  IN  r.id \in DOMAIN stores.themes /\ stores.themes[r.id] = r

\* a successful import of two operations that share the id 1, into a database whose
\* operations collection had already handed out the key 1
C22_Witness ==
    /\ ImportReturned
    /\ ret.success
    /\ ImportedDocument.data = DuplicateIdsData
    /\ ret.call.keyGen.operations > 1
    /\ Cardinality(DOMAIN stores.operations) = 2

\* the keys of the import summaries among the records of backups
ImportSummaries(backups) ==
    {k \in DOMAIN backups : Has(backups[k], "type") /\ backups[k].type = "import"}

\* C23: a successful importData returns, for each of themes, operations and
\* workspaces, the number of records of the document's section; backups keeps
\* every record it held and has gained exactly one import summary, which carries
\* those counts, the document's version and timestamp and the file's name.
C23_ImportSummaryRecorded ==
    (ImportReturned /\ ret.success)
        => LET doc == ImportedDocument
               old == ret.call.before.backups
               added == ImportSummaries(stores.backups) \ DOMAIN old
           IN  /\ \A s \in SeedStores : ret.imported[s] = Len(Section(doc, s))
               /\ \A k \in DOMAIN old : k \in DOMAIN stores.backups /\ stores.backups[k] = old[k]
               /\ Cardinality(added) = 1
               /\ \A k \in added :
                      /\ stores.backups[k].imported = ret.imported
                      /\ stores.backups[k].version = doc.version
                      /\ stores.backups[k].originalTimestamp = doc.timestamp
                      /\ stores.backups[k].filename = ret.call.file.name

\* a successful import of the full document into a database whose backups already
\* held a record
C23_Witness ==
    /\ ImportReturned
    /\ ret.success
    /\ ImportedDocument.data = FullData
    /\ ret.call.before.backups # EmptyMap
    /\ ret.imported = [themes |-> 1, operations |-> 1, workspaces |-> 1]
    /\ Cardinality(ImportSummaries(stores.backups)) = 1

\* C24: whatever exportData and importData were given and whatever failed on the
\* way (a request of the engine, the download, the parsing, the validation, a
\* missing attribute, a declined confirmation), what they return is a result with
\* success true, or with success false and an error message.
C24_StructuredResults ==
    (ret.fn \in {"exportData", "importData"})
        => /\ Has(ret, "success")
           /\ ret.success \in BOOLEAN
           /\ IF ret.success THEN ~Has(ret, "error")
              ELSE Has(ret, "error") /\ ret.error # ""

\* an import of a valid document without metadata, whose preview throws a
\* TypeError inside importData
C24_Witness ==
    /\ ImportReturned
    /\ ValidDocument
    /\ ~Has(ImportedDocument, "metadata")
    /\ ~ret.success
    /\ ret.error = "TypeError"

\* ------------------------------------------------------- phases of an export
\* The phase of the export in progress or returned last.  Serializing and Writing
\* are synchronous code: they are passed inside the step that follows the third
\* read, which leaves the export in Recording, or Failed.
ExportPhase ==
    IF stack # <<>> /\ Top.fn = "exportData"
    THEN IF Top.pc = "record" THEN "Recording" ELSE "Gathering"
    ELSE IF ret.fn = "exportData"
    THEN IF ret.success THEN "Done" ELSE "Failed"
    ELSE "None"

\* the phases an export may be in after a step that found it in phase p
ExportPhasesAfter(p) ==
    CASE p = "Gathering" -> {"Gathering", "Recording", "Failed"}
      [] p = "Recording" -> {"Recording", "Done", "Failed"}
      [] p = "Done" -> {"Done", "None"}
      [] p = "Failed" -> {"Failed", "None"}
      [] p = "None" -> {"None"}

\* a step of one export moves it forward, or to Failed, or not at all
ExportPhaseStep ==
    IF calls' = calls THEN ExportPhase' \in ExportPhasesAfter(ExportPhase)
    ELSE ExportPhase' = "Gathering"

\* until the export records, backups is as it was at the start; when it records,
\* the three collections have been read into the document that was downloaded
ExportRecordsLast ==
    /\ ExportPhase \in {"Gathering", "Recording"} => stores.backups = Top.before.backups
    /\ ExportPhase = "Recording"
           => /\ downloads.name = Top.record.filename
              /\ JSONparses(downloads.text)
              /\ \A s \in SeedStores :
                     JSONparse(downloads.text).data[s] = getAllItemsTx(stores, keyGen, s).value
    /\ ExportPhase = "Done" => ret.record.timestamp \in DOMAIN stores.backups

\* C25: an export goes from Gathering through Serializing and Writing to Recording
\* and Done, never back and never past a phase, or to Failed from any of them, and
\* stays in Done or Failed; the summary record is written only after the three
\* collections were read and the document was downloaded; and when every request
\* is answered, an export that has started reaches Done or Failed.
C25_ExportPhases ==
    /\ [][ExportPhaseStep]_vars
    /\ []ExportRecordsLast
    /\ (ExportPhase \in {"Gathering", "Recording"}) ~> (ExportPhase \in {"Done", "Failed"})

\* the second export is Done, and both summaries are in backups
C25_Witness ==
    /\ ExportPhase = "Done"
    /\ calls = MaxCalls
    /\ Cardinality(DOMAIN stores.backups) = 2

\* ------------------------------------------------------ the database itself
\* the call on the database itself that returned last
SchemaCall(op) == last.op = op

\* the open neither removed a collection nor touched a record or a key generator
OpenLeavesUntouched ==
    /\ last.before.idb.objectStoreNames \subseteq idb.objectStoreNames
    /\ stores = last.before.stores
    /\ keyGen = last.before.keyGen

C27_ExistsProbeIsPure ==
    (SchemaCall("databaseExists") /\ last.before.available)
        => /\ last.value = (last.before.idb.version > 0)
           /\ idb = last.before.idb
           /\ stores = last.before.stores

\* deleteDB succeeded: no handle, no database, nothing stored
DeletedAll ==
    /\ db = NULL
    /\ idb = NoDatabase
    /\ \A s \in StoreNames : stores[s] = EmptyMap

\* a step that opens a connection while no database exists
OpensFresh == idb = NoDatabase /\ db' # NULL

KeysCoherent ==
    /\ \A s \in StoreNames : \A k \in DOMAIN stores[s] : stores[s][k][STORES[s].keyPath] = k
    /\ \A s \in AutoStores : \A k \in DOMAIN stores[s] : k < keyGen[s]

\* the step is a direct addItem whose argument carries its own id
CallerSuppliedKey == stack = <<>> /\ last'.op = "addItem" /\ Has(last'.arg, "id")

\* no key generator goes back, and a key the step adds to a store-generated
\* collection is at or above where the generator stood, and below where it stands
KeysAscend ==
    \A s \in AutoStores :
        /\ keyGen'[s] >= keyGen[s]
        /\ \A k \in DOMAIN stores'[s] \ DOMAIN stores[s] :
               /\ k < keyGen'[s]
               /\ CallerSuppliedKey \/ k >= keyGen[s]

\* C28: in every collection each record is stored under its own primary key, so
\* no two records share one; and in operations and workspaces every key the
\* store generates for an addItem is greater than every key the collection was
\* given before, whether by direct calls or by an import, and whether or not
\* the collection was cleared in between.
C28_KeysUniqueAndAscending ==
    /\ []KeysCoherent
    /\ [][KeysAscend]_vars

\* a direct addItem into operations, emptied by an import after key 1 had been
\* handed out, got a key above 1
C28_Witness ==
    /\ stack = <<>>
    /\ last.op = "addItem"
    /\ last.store = "operations"
    /\ last.ok
    /\ ~Has(last.arg, "id")
    /\ last.before.stores.operations = EmptyMap
    /\ last.before.keyGen.operations > 1
    /\ last.value = last.before.keyGen.operations
    /\ calls > 0
\* --------------------------------------------------------- concurrent saves
\* every save that was started has returned, and there were at least two
AllSavesDone == \A c \in TaskIds : tasks[c].pc = "done"

\* the save that was started last
LatestSave == CHOOSE c \in TaskIds : \A d \in TaskIds : tasks[d].started <= tasks[c].started

\* C30: once all of two or more saveTheme calls started without awaiting each
\* other have completed, none of them went to the fallback slot because its add
\* met an existing key, and, when the engine failed none of them, the default
\* record in themes holds the value of the save that was started last.
C30_ConcurrentSavesConverge ==
    AllSavesDone
        => /\ \A c \in TaskIds : tasks[c].error # "ConstraintError"
           /\ (\A c \in TaskIds : tasks[c].tier = "themes")
                 => /\ "default" \in DOMAIN stores.themes
                    /\ ThemeValue(stores.themes["default"])
                           = ThemeValue(tasks[LatestSave].themeData)
\* -------------------------------------------------------- concurrent updates
\* every caller's updateItem has succeeded
AllUpdated == \A c \in TaskIds : tasks[c].pc = "done" /\ tasks[c].ok

\* no two callers patched the same field
DisjointPatches ==
    \A c, d \in TaskIds :
        c # d => DOMAIN tasks[c].call.arg \cap DOMAIN tasks[d].call.arg = {}

\* C31: when updateItem calls on the same key, made by callers that do not wait
\* for each other, with patches on disjoint fields, have all succeeded, the
\* record holds every field of every patch, in whatever order the calls were
\* opened and their transactions ran.
C31_NoLostUpdate ==
    (AllUpdated /\ DisjointPatches)
        => /\ "default" \in DOMAIN stores.themes
           /\ \A c \in TaskIds : \A f \in DOMAIN tasks[c].call.arg :
                  /\ Has(stores.themes["default"], f)
                  /\ stores.themes["default"][f] = tasks[c].call.arg[f]

\* two updates with different patches have succeeded and the record holds both
C31_Witness ==
    /\ AllUpdated
    /\ DisjointPatches
    /\ stores.themes["default"].colors = AmberColors
    /\ stores.themes["default"].typography = AltTypography
\* ------------------------------------------------- importData failing midway
\* importData returned from its catch after an addItem of the three loops failed
InsertionFailed == ImportReturned /\ ~ret.success /\ ret.call.pc = "insert"

\* the exportData call of this import succeeded and its summary is in backups,
\* under a key that was not there when importData was called
SnapshotRecorded ==
    /\ ret.call.preImportBackup.success
    /\ ret.call.preImportBackup.record.timestamp \in DOMAIN stores.backups
    /\ ret.call.preImportBackup.record.timestamp \notin DOMAIN ret.call.before.backups

\* C32: when an insertion fails after clearing has begun, importData returns a
\* failure result, no import summary has been added to backups, and backups
\* holds the summary of a pre-import snapshot that this import created.
C32_SnapshotBoundsDamage ==
    InsertionFailed
        => /\ ImportSummaries(stores.backups) = ImportSummaries(ret.call.before.backups)
           /\ SnapshotRecorded
\* ------------------------------------------------ importData before it starts
\* the caller was shown the import preview and declined it
PreviewDeclined ==
    /\ ret.call.prompts # <<>>
    /\ ret.call.prompts[Len(ret.call.prompts)].ask = "preview"
    /\ ~ret.call.prompts[Len(ret.call.prompts)].answer

\* C33: when the caller declines the import preview, or the text of the file is
\* not JSON, importData returns a failure result, themes, operations, workspaces
\* and backups are as they were when it was called, and exportData was not
\* called for a pre-import snapshot.
C33_NothingBeforePreview ==
    (ImportReturned /\ (PreviewDeclined \/ ~JSONparses(ret.call.file.text)))
        => /\ ~ret.success
           /\ stores = ret.call.before
           /\ keyGen = ret.call.keyGen
           /\ ~Has(ret.call, "preImportBackup")

\* the preview of a valid document was declined over a database that holds records
C33_Witness ==
    /\ ImportReturned
    /\ PreviewDeclined
    /\ ValidDocument
    /\ ret.error = "Import cancelled by user"
    /\ ret.call.before.operations # EmptyMap
    /\ stores = ret.call.before

\* ------------------------------------------- what export and import do to backups
\* every record of old is in backups with the value it had
BackupsKept(old) ==
    \A k \in DOMAIN old : k \in DOMAIN stores.backups /\ stores.backups[k] = old[k]

\* the keys backups has gained since it held old
BackupsAdded(old) == DOMAIN stores.backups \ DOMAIN old

\* C34: when exportData or importData has returned, every record backups held
\* when it was called is still there unchanged; exportData has added at most one
\* record, and a successful importData has added exactly two, the summary of the
\* pre-import snapshot and the import summary, under different timestamps.
C34_BackupsAppendOnly ==
    /\ (stack = <<>> /\ ret.fn = "exportData")
           => /\ BackupsKept(ret.before.backups)
              /\ Cardinality(BackupsAdded(ret.before.backups)) <= 1
    /\ ImportReturned
           => /\ BackupsKept(ret.call.before.backups)
              /\ ret.success
                     => LET added == BackupsAdded(ret.call.before.backups)
                        IN  /\ Cardinality(added) = 2
                            /\ Cardinality(added \cap ImportSummaries(stores.backups)) = 1
                            /\ ret.call.preImportBackup.success
                            /\ ret.call.preImportBackup.record.timestamp
                                   \in added \ ImportSummaries(stores.backups)

====
